---- MODULE Spec2Model ----
(***************************************************************************)
(* Model of the contract-note extraction pipeline of extractor_openai.py   *)
(* (class ISECAPIExtractor): size gate, PDF reduction, upload, completion  *)
(* request with the gpt-4o fallback, response recovery, validation, result *)
(* envelope and temporary-file cleanup.                                    *)
(*                                                                         *)
(* Text is a sequence of lexical units.  A unit is one structural          *)
(* character ({ } [ ] , : and the double quote), one fence marker of three *)
(* backticks (written <fence>), one whitespace character (written " "),    *)
(* or a run of other characters (a word such as header or 12.5) that      *)
(* contains none of the former.  Character strings whose characters matter *)
(* (an ISIN) are spelled one character per unit.                           *)
(***************************************************************************)
EXTENDS Integers, Sequences, FiniteSets, TLC

(***************************************************************************)
(* JSON values as json.loads returns them                                  *)
(***************************************************************************)
JNull == [t |-> "null"]
JBool(b) == [t |-> "bool", b |-> b]
JNum(w) == [t |-> "num", w |-> w]
JStr(s) == [t |-> "str", s |-> s]
JList(l) == [t |-> "list", l |-> l]
JObj(m) == [t |-> "obj", m |-> m]

EmptyMap == <<>>

EmptyDict == JObj(EmptyMap)

Key(w) == <<w>>

\* Python truthiness of a parsed value (used by `not data`, `not header[f]`)
Truthy(v) ==
    CASE v.t = "null" -> FALSE
      [] v.t = "bool" -> v.b
      [] v.t = "num" -> v.w \notin {"0", "0.0"}
      [] v.t = "str" -> Len(v.s) > 0
      [] v.t = "list" -> Len(v.l) > 0
      [] v.t = "obj" -> DOMAIN v.m # {}

(***************************************************************************)
(* Lexical classes of units                                                *)
(***************************************************************************)
WS == " "

QUOTE == "\""

FENCE == "<fence>"

NumberWords == {"0", "1", "6000", "12.5"}

\* the words of the modelled texts that consist of letters only ([a-zA-Z]*)
AlphaWords == {"json", "true", "false", "null", "sorry", "text"}

IsSpace(u) == u = WS

(***************************************************************************)
(* json.loads over units                                                   *)
(***************************************************************************)
Min(S) == CHOOSE k \in S : \A j \in S : k <= j

Max(S) == CHOOSE k \in S : \A j \in S : k >= j

\* least index >= i that holds no whitespace, or the index past the end
SkipWs(s, i) ==
    LET S == {k \in i..Len(s) : ~IsSpace(s[k])}
    IN IF i > Len(s) THEN i ELSE IF S = {} THEN Len(s) + 1 ELSE Min(S)

\* least index >= i holding unit u, or 0
FindUnit(s, u, i) ==
    LET S == {k \in i..Len(s) : s[k] = u}
    IN IF S = {} THEN 0 ELSE Min(S)

ParseFail(i) == [ok |-> FALSE, v |-> JNull, next |-> i]

ParseOk(v, i) == [ok |-> TRUE, v |-> v, next |-> i]

ParseString(s, i) ==
    \* s[i] is the opening quote
    LET k == FindUnit(s, QUOTE, i + 1)
    IN IF k = 0 THEN ParseFail(i)
       ELSE ParseOk(JStr(SubSeq(s, i + 1, k - 1)), k + 1)

RECURSIVE ParseValue(_, _)
RECURSIVE ParseMembers(_, _, _)
RECURSIVE ParseElems(_, _, _)

ParseValue(s, i0) ==
    LET i == SkipWs(s, i0)
    IN IF i > Len(s) THEN ParseFail(i)
       ELSE IF s[i] = "{" THEN
              LET j == SkipWs(s, i + 1)
              IN IF j <= Len(s) /\ s[j] = "}" THEN ParseOk(EmptyDict, j + 1)
                 ELSE ParseMembers(s, j, EmptyMap)
       ELSE IF s[i] = "[" THEN
              LET j == SkipWs(s, i + 1)
              IN IF j <= Len(s) /\ s[j] = "]" THEN ParseOk(JList(<<>>), j + 1)
                 ELSE ParseElems(s, j, <<>>)
       ELSE IF s[i] = QUOTE THEN ParseString(s, i)
       ELSE IF s[i] \in NumberWords THEN ParseOk(JNum(s[i]), i + 1)
       ELSE IF s[i] = "true" THEN ParseOk(JBool(TRUE), i + 1)
       ELSE IF s[i] = "false" THEN ParseOk(JBool(FALSE), i + 1)
       ELSE IF s[i] = "null" THEN ParseOk(JNull, i + 1)
       ELSE ParseFail(i)

\* members of an object from the key at i on; m holds the pairs read so far
ParseMembers(s, i, m) ==
    IF i > Len(s) \/ s[i] # QUOTE THEN ParseFail(i)
    ELSE LET k == ParseString(s, i)
         IN IF ~k.ok THEN ParseFail(i)
            ELSE LET c == SkipWs(s, k.next)
                 IN IF c > Len(s) \/ s[c] # ":" THEN ParseFail(c)
                    ELSE LET r == ParseValue(s, c + 1)
                         IN IF ~r.ok THEN ParseFail(r.next)
                            ELSE LET e == SkipWs(s, r.next)
                                     m2 == (k.v.s :> r.v) @@ m
                                 IN IF e > Len(s) THEN ParseFail(e)
                                    ELSE IF s[e] = "}" THEN ParseOk(JObj(m2), e + 1)
                                    ELSE IF s[e] = "," THEN ParseMembers(s, SkipWs(s, e + 1), m2)
                                    ELSE ParseFail(e)

\* elements of an array from the value at i on
ParseElems(s, i, l) ==
    LET r == ParseValue(s, i)
    IN IF ~r.ok THEN ParseFail(r.next)
       ELSE LET e == SkipWs(s, r.next)
                l2 == Append(l, r.v)
            IN IF e > Len(s) THEN ParseFail(e)
               ELSE IF s[e] = "]" THEN ParseOk(JList(l2), e + 1)
               ELSE IF s[e] = "," THEN ParseElems(s, e + 1, l2)
               ELSE ParseFail(e)

\* json.loads: ok = FALSE stands for JSONDecodeError
JsonLoads(s) ==
    LET r == ParseValue(s, 1)
    IN IF r.ok /\ SkipWs(s, r.next) > Len(s) THEN [ok |-> TRUE, v |-> r.v]
       ELSE [ok |-> FALSE, v |-> JNull]

(***************************************************************************)
(* Response recovery: _clean_response_text, _fix_truncated_json,           *)
(* _parse_json_response                                                    *)
(***************************************************************************)
\* str.strip(): the units from the first to the last that is no whitespace
Strip(s) ==
    LET S == {k \in 1..Len(s) : ~IsSpace(s[k])}
    IN IF S = {} THEN <<>> ELSE SubSeq(s, Min(S), Max(S))

\* least index >= i with a fence directly followed by the word json, or 0
FindFenceJson(s, i) ==
    LET S == {k \in i..(Len(s) - 1) : s[k] = FENCE /\ s[k + 1] = "json"}
    IN IF S = {} THEN 0 ELSE Min(S)

\* the subsequence of s at the indices in Keep, in order
Restrict(s, Keep) ==
    [i \in 1..Cardinality(Keep) |->
        s[CHOOSE k \in Keep : Cardinality({j \in Keep : j <= k}) = i]]

\* re.sub(r'<fence>[a-zA-Z]*\s*', '', s) followed by re.sub(r'\s*<fence>\s*', '', s):
\* every fence goes, with the letters-only word directly after it and the
\* whitespace after that; the second substitution then finds no fence
RemoveFences(s) ==
    LET WordEnd(f) == IF f < Len(s) /\ s[f + 1] \in AlphaWords THEN f + 1 ELSE f
        Removed == {k \in 1..Len(s) :
                      \E f \in 1..k : /\ s[f] = FENCE
                                      /\ \/ k <= WordEnd(f)
                                         \/ \A j \in (WordEnd(f) + 1)..k : IsSpace(s[j])}
    IN Restrict(s, (1..Len(s)) \ Removed)

_clean_response_text(response_text) ==
    LET j == FindFenceJson(response_text, 1)
        jc == IF j = 0 THEN 0 ELSE FindUnit(response_text, FENCE, j + 2)
        f == FindUnit(response_text, FENCE, 1)
        fc == IF f = 0 THEN 0 ELSE FindUnit(response_text, FENCE, f + 1)
    IN IF j # 0 /\ jc # 0 THEN Strip(SubSeq(response_text, j + 2, jc - 1))
       ELSE IF f # 0 /\ fc # 0 THEN Strip(SubSeq(response_text, f + 1, fc - 1))
       ELSE Strip(RemoveFences(response_text))

\* brace_count of _fix_truncated_json after the unit at 1-based index i
BraceCount(json_str, i) ==
    Cardinality({k \in 1..i : json_str[k] = "{"})
    - Cardinality({k \in 1..i : json_str[k] = "}"})

\* last_complete_pos of _fix_truncated_json after its loop (0-based, -1 = none)
LastCompletePos(json_str) ==
    LET S == {i \in 1..Len(json_str) :
                json_str[i] = "}" /\ BraceCount(json_str, i) = 0}
    IN IF S = {} THEN -1 ELSE Max(S) - 1

\* faulty variant: the slice ends before the closing brace
_fix_truncated_json_DropsBrace(json_str) ==
    LET last_complete_pos == LastCompletePos(json_str)
    IN IF last_complete_pos > 0 /\ last_complete_pos < Len(json_str) - 1
       THEN SubSeq(json_str, 1, last_complete_pos)
       ELSE json_str

_fix_truncated_json(json_str) ==
    LET last_complete_pos == LastCompletePos(json_str)
    IN IF last_complete_pos > 0 /\ last_complete_pos < Len(json_str) - 1
       THEN SubSeq(json_str, 1, last_complete_pos + 1)
       ELSE json_str

\* greatest index holding unit u, or 0
FindLastUnit(s, u) ==
    LET S == {k \in 1..Len(s) : s[k] = u}
    IN IF S = {} THEN 0 ELSE Max(S)

\* re.search(r'\{[\s\S]*\}', s): from the first '{' to the last '}' after it
JsonPatternMatch(s) ==
    LET a == FindUnit(s, "{", 1)
        b == FindLastUnit(s, "}")
    IN IF a # 0 /\ b > a THEN [found |-> TRUE, text |-> SubSeq(s, a, b)]
       ELSE [found |-> FALSE, text |-> <<>>]

\* the try block of _parse_json_response: ok = FALSE stands for JSONDecodeError
FirstAttempt(response_text) ==
    LET cleaned_text == _clean_response_text(response_text)
        match == JsonPatternMatch(cleaned_text)
    IN IF match.found THEN JsonLoads(_fix_truncated_json(match.text))
       ELSE JsonLoads(Strip(cleaned_text))

\* the retry of the except block
RetryAttempt(response_text) ==
    JsonLoads(_fix_truncated_json(_clean_response_text(response_text)))

\* the parse attempts of _parse_json_response: the try block, then the
\* retry of the except block; ok = FALSE when both raise
ParseAttempts(response_text) ==
    LET first == FirstAttempt(response_text)
        retry == RetryAttempt(response_text)
    IN IF first.ok THEN first ELSE retry

_parse_json_response(response_text) ==
    LET attempt == ParseAttempts(response_text)
    IN IF attempt.ok THEN attempt.v ELSE EmptyDict

(***************************************************************************)
(* Error strings.  An entry of errors is its message template (kind), the  *)
(* transaction index in its prefix (-1 when it has none) and the field     *)
(* name or exception text interpolated into it ("" when it has none).      *)
(***************************************************************************)
Err(kind, idx, field) == [kind |-> kind, idx |-> idx, field |-> field]

Msg(kind) == Err(kind, -1, "")

\* errors.append(...) once for every element of fields that is in failing,
\* in the order of fields
ErrorsFor(fields, failing, kind, idx) ==
    LET Failing(f) == f \in failing
        hit == SelectSeq(fields, Failing)
    IN [i \in 1..Len(hit) |-> Err(kind, idx, hit[i])]

(***************************************************************************)
(* Python operators on parsed values                                       *)
(***************************************************************************)
\* `key in container` raises TypeError on a number, a boolean or None
InRaises(container) == container.t \in {"num", "bool", "null"}

\* `key in container` where it does not raise: a key of a dict, an element
\* of a list, a substring of a string (whole words of the string here)
In(key, container) ==
    CASE container.t = "obj" -> Key(key) \in DOMAIN container.m
      [] container.t = "list" -> \E i \in 1..Len(container.l) : container.l[i] = JStr(Key(key))
      [] container.t = "str" -> \E i \in 1..Len(container.s) : container.s[i] = key
      [] OTHER -> FALSE

\* container[key] with a string key raises TypeError unless container is a dict
GetItemRaises(container) == container.t # "obj"

\* dict.get(key, default)
Get(d, key, default) == IF Key(key) \in DOMAIN d.m THEN d.m[Key(key)] ELSE default

UpperLetters ==
    {"A", "B", "C", "D", "E", "F", "G", "H", "I", "J", "K", "L", "M",
     "N", "O", "P", "Q", "R", "S", "T", "U", "V", "W", "X", "Y", "Z"}

Digits == {"0", "1", "2", "3", "4", "5", "6", "7", "8", "9"}

\* the newline character of a parsed string (the JSON escape \n decoded)
NEWLINE == "\n"

\* re.match(r'^[A-Z]{2}[0-9A-Z]{10}$', isin) on a string spelled one
\* character per unit; without re.MULTILINE, $ matches at the end of the
\* string and also just before a newline that ends the string
IsinMatches(isin) ==
    LET core == IF Len(isin) = 13 /\ isin[13] = NEWLINE THEN SubSeq(isin, 1, 12) ELSE isin
    IN /\ Len(core) = 12
       /\ \A i \in 1..2 : core[i] \in UpperLetters
       /\ \A i \in 3..12 : core[i] \in UpperLetters \cup Digits

\* float(value) succeeds on a string: a number word, whitespace around it allowed
FloatParses(value) ==
    /\ value.t = "str"
    /\ Len(Strip(value.s)) = 1
    /\ Strip(value.s)[1] \in NumberWords

\* isinstance(value, (int, float)); bool is a subclass of int
IsNumeric(value) == value.t \in {"num", "bool"}

(***************************************************************************)
(* Result validator                                                        *)
(***************************************************************************)
required_header_fields ==
    <<"contract_note_no", "trade_date", "settlement_no",
      "settlement_date", "client_id", "client_name">>

numeric_fields ==
    <<"buy_quantity", "sell_quantity", "total_quantity",
      "buy_weighted_average_price", "sell_weighted_average_price",
      "buy_net_payable_receivable", "sell_net_payable_receivable",
      "total_net_payable_receivable">>

required_fields ==
    <<"pay_out_obligation", "taxable_value_of_supply",
      "gst_details", "securities_transaction_tax", "stamp_duty",
      "net_amount_receivable_by_client", "net_amount_to_be_credited_in_bank">>

tvs_fields ==
    <<"total_brokerage", "exchange_transaction_charges",
      "sebi_turnover_fees", "total_taxable_value">>

gst_fields ==
    <<"cgst_rate", "cgst_brokerage_amount", "cgst_charges_amount", "cgst_total_amount",
      "sgst_rate", "sgst_brokerage_amount", "sgst_charges_amount", "sgst_total_amount",
      "igst_rate", "igst_brokerage_amount", "igst_charges_amount", "igst_total_amount">>

Range(f) == {f[i] : i \in DOMAIN f}

\* a loop `for field in fields: if field not in c: ...` raises
MissingLoopRaises(c, fields) == InRaises(c)

\* the numeric-field loop of _validate_transaction needs coercion of field
NeedsCoercion(transaction, field) ==
    LET value == Get(transaction, field, JNull)
    IN value.t # "null" /\ ~IsNumeric(value)

\* _validate_transaction raises: .get on a non-dict (AttributeError), or
\* re.match on a truthy isin that is no string (TypeError)
TransactionRaises(transaction) ==
    \/ transaction.t # "obj"
    \/ LET isin == Get(transaction, "isin", JStr(<<>>))
       IN Truthy(isin) /\ isin.t # "str"

\* faulty variant: the numeric loop ends at the first value that fails to parse
_validate_transaction_StopsAtBadNumber(transaction, index) ==
    LET isin == Get(transaction, "isin", JStr(<<>>))
        isinErrors == IF ~Truthy(isin) THEN <<Err("Missing ISIN", index, "")>>
                      ELSE IF ~IsinMatches(isin.s)
                           THEN <<Err("Invalid ISIN format", index, "")>>
                      ELSE <<>>
        nameErrors == IF ~Truthy(Get(transaction, "security_name", JNull))
                      THEN <<Err("Missing security name", index, "")>>
                      ELSE <<>>
        badNumbers == {field \in Range(numeric_fields) :
                          /\ NeedsCoercion(transaction, field)
                          /\ ~FloatParses(Get(transaction, field, JNull))}
        all == ErrorsFor(numeric_fields, badNumbers, "Invalid numeric value", index)
    IN isinErrors \o nameErrors \o SubSeq(all, 1, IF Len(all) > 0 THEN 1 ELSE 0)

\* the errors _validate_transaction returns when it does not raise
_validate_transaction(transaction, index) ==
    LET isin == Get(transaction, "isin", JStr(<<>>))
        isinErrors == IF ~Truthy(isin) THEN <<Err("Missing ISIN", index, "")>>
                      ELSE IF ~IsinMatches(isin.s)
                           THEN <<Err("Invalid ISIN format", index, "")>>
                      ELSE <<>>
        nameErrors == IF ~Truthy(Get(transaction, "security_name", JNull))
                      THEN <<Err("Missing security name", index, "")>>
                      ELSE <<>>
        badNumbers == {field \in Range(numeric_fields) :
                          /\ NeedsCoercion(transaction, field)
                          /\ ~FloatParses(Get(transaction, field, JNull))}
    IN isinErrors \o nameErrors
       \o ErrorsFor(numeric_fields, badNumbers, "Invalid numeric value", index)

\* the transaction after _validate_transaction: transaction[field] = float(value)
CoercedTransaction(transaction) ==
    IF transaction.t # "obj" THEN transaction
    ELSE JObj([k \in DOMAIN transaction.m |->
                 IF /\ \E f \in Range(numeric_fields) : k = Key(f)
                    /\ transaction.m[k].t = "str"
                    /\ FloatParses(transaction.m[k])
                 THEN JNum(Strip(transaction.m[k].s)[1])
                 ELSE transaction.m[k]])

ObligationsRaises(obligations) ==
    \/ MissingLoopRaises(obligations, required_fields)
    \/ /\ In("taxable_value_of_supply", obligations)
       /\ \/ GetItemRaises(obligations)
          \/ MissingLoopRaises(obligations.m[Key("taxable_value_of_supply")], tvs_fields)
    \/ /\ In("gst_details", obligations)
       /\ \/ GetItemRaises(obligations)
          \/ MissingLoopRaises(obligations.m[Key("gst_details")], gst_fields)

\* the errors _validate_obligations returns when it does not raise
_validate_obligations(obligations) ==
    LET Absent(fields, c) == {field \in Range(fields) : ~In(field, c)}
        tvs == obligations.m[Key("taxable_value_of_supply")]
        gst == obligations.m[Key("gst_details")]
    IN ErrorsFor(required_fields, Absent(required_fields, obligations),
                 "Missing obligations field", -1)
       \o (IF In("taxable_value_of_supply", obligations)
           THEN ErrorsFor(tvs_fields, Absent(tvs_fields, tvs),
                          "Missing taxable value field", -1)
           ELSE <<>>)
       \o (IF In("gst_details", obligations)
           THEN ErrorsFor(gst_fields, Absent(gst_fields, gst),
                          "Missing GST detail field", -1)
           ELSE <<>>)

\* the header block of _validate_extracted_data raises
HeaderRaises(data) ==
    /\ In("header", data)
    /\ \/ GetItemRaises(data)
       \/ LET header == data.m[Key("header")]
          IN \/ InRaises(header)
             \/ \E f \in Range(required_header_fields) :
                   In(f, header) /\ GetItemRaises(header)

\* faulty variant: a missing header section is reported once per required field too
HeaderErrors_PerFieldWhenAbsent(data) ==
    IF ~In("header", data)
    THEN <<Msg("Missing header section")>>
         \o ErrorsFor(required_header_fields, Range(required_header_fields),
                      "Missing required header field", -1)
    ELSE LET header == data.m[Key("header")]
             bad == {field \in Range(required_header_fields) :
                       IF ~In(field, header) THEN TRUE
                       ELSE ~Truthy(header.m[Key(field)])}
         IN ErrorsFor(required_header_fields, bad, "Missing required header field", -1)

\* the errors of the header block when it does not raise
HeaderErrors(data) ==
    IF ~In("header", data) THEN <<Msg("Missing header section")>>
    ELSE LET header == data.m[Key("header")]
             bad == {field \in Range(required_header_fields) :
                       IF ~In(field, header) THEN TRUE
                       ELSE ~Truthy(header.m[Key(field)])}
         IN ErrorsFor(required_header_fields, bad, "Missing required header field", -1)

TransactionsRaise(data) ==
    /\ In("transactions", data)
    /\ \/ GetItemRaises(data)
       \/ LET transactions == data.m[Key("transactions")]
          IN /\ transactions.t = "list"
             /\ \E i \in 1..Len(transactions.l) : TransactionRaises(transactions.l[i])

RECURSIVE AllTransactionErrors(_, _)
\* errors.extend(transaction_errors) for the first n transactions, indexed from 0
AllTransactionErrors(l, n) ==
    IF n = 0 THEN <<>>
    ELSE AllTransactionErrors(l, n - 1) \o _validate_transaction(l[n], n - 1)

TransactionsErrors(data) ==
    IF ~In("transactions", data) THEN <<Msg("Missing transactions section")>>
    ELSE LET transactions == data.m[Key("transactions")]
         IN IF transactions.t # "list" THEN <<Msg("Transactions should be a list")>>
            ELSE AllTransactionErrors(transactions.l, Len(transactions.l))

ObligationsBlockRaises(data) ==
    /\ In("obligations", data)
    /\ \/ GetItemRaises(data)
       \/ ObligationsRaises(data.m[Key("obligations")])

ObligationsErrors(data) ==
    IF ~In("obligations", data) THEN <<Msg("Missing obligations section")>>
    ELSE _validate_obligations(data.m[Key("obligations")])

\* _validate_extracted_data raises instead of returning
ValidationRaises(data) ==
    /\ Truthy(data)
    /\ \/ InRaises(data)
       \/ HeaderRaises(data)
       \/ TransactionsRaise(data)
       \/ ObligationsBlockRaises(data)

\* faulty variant: the return after the no-data error is missing
_validate_extracted_data_NoEarlyReturn(data) ==
    (IF ~Truthy(data) THEN <<Msg("No data extracted from PDF")>> ELSE <<>>)
    \o HeaderErrors(data) \o TransactionsErrors(data) \o ObligationsErrors(data)

\* faulty variant: an empty mapping is accepted without an error
_validate_extracted_data_EmptyAccepted(data) ==
    IF ~Truthy(data) THEN <<>>
    ELSE HeaderErrors(data) \o TransactionsErrors(data) \o ObligationsErrors(data)

\* the error list _validate_extracted_data returns when it does not raise
_validate_extracted_data(data) ==
    IF ~Truthy(data) THEN <<Msg("No data extracted from PDF")>>
    ELSE HeaderErrors(data) \o TransactionsErrors(data) \o ObligationsErrors(data)

\* the mapping after _validate_extracted_data returned: the numeric fields of
\* every transaction are coerced in place
DataAfterValidation(data) ==
    IF /\ data.t = "obj"
       /\ Key("transactions") \in DOMAIN data.m
       /\ data.m[Key("transactions")].t = "list"
    THEN LET l == data.m[Key("transactions")].l
         IN JObj([data.m EXCEPT ![Key("transactions")] =
                     JList([i \in 1..Len(l) |-> CoercedTransaction(l[i])])])
    ELSE data

(***************************************************************************)
(* Response texts the model service may return                             *)
(***************************************************************************)
Quoted(w) == <<QUOTE, w, QUOTE>>

Member(k, v) == Quoted(k) \o <<":", WS>> \o v

RECURSIVE JoinComma(_)
JoinComma(parts) ==
    IF Len(parts) = 0 THEN <<>>
    ELSE IF Len(parts) = 1 THEN parts[1]
    ELSE parts[1] \o <<",", WS>> \o JoinComma(Tail(parts))

Object(members) == <<"{">> \o JoinComma(members) \o <<"}">>

\* an object whose fields all hold the number 1
FieldsObject(fields) == Object([i \in 1..Len(fields) |-> Member(fields[i], <<"1">>)])

\* an object whose fields all hold the string "text"
TextObject(fields) == Object([i \in 1..Len(fields) |-> Member(fields[i], Quoted("text"))])

SampleIsin == <<"I", "N", "E", "0", "0", "W", "C", "0", "1", "0", "2", "7">>

SampleTransaction ==
    Object(<<Member("isin", <<QUOTE>> \o SampleIsin \o <<QUOTE>>),
             Member("security_name", Quoted("text")),
             Member("buy_quantity", <<"6000">>)>>)

SampleObligations ==
    Object(<<Member("pay_out_obligation", <<"1">>),
             Member("taxable_value_of_supply", FieldsObject(tvs_fields)),
             Member("gst_details", FieldsObject(gst_fields)),
             Member("securities_transaction_tax", <<"1">>),
             Member("stamp_duty", <<"1">>),
             Member("net_amount_receivable_by_client", <<"1">>),
             Member("net_amount_to_be_credited_in_bank", <<"1">>)>>)

\* a complete payload
SamplePayload ==
    Object(<<Member("header", TextObject(required_header_fields)),
             Member("transactions", <<"[">> \o SampleTransaction \o <<"]">>),
             Member("obligations", SampleObligations)>>)

\* the complete payload in a fenced json block, as in sample_response
FencedSample == <<FENCE, "json", WS>> \o SamplePayload \o <<WS, FENCE>>

\* a payload with an incomplete header, a transaction without ISIN whose
\* quantity is not a number, and no obligations
PartialPayload ==
    Object(<<Member("header", TextObject(<<"client_id">>)),
             Member("transactions",
                    <<"[">> \o Object(<<Member("buy_quantity", Quoted("text"))>>) \o <<"]">>)>>)

\* prose without any structured data
ProseText == <<"sorry", WS, "text">>

\* a JSON array that holds no object
ArrayText == <<"[", "1", ",", WS, "1", "]">>

\* a payload whose header is null
NullHeaderPayload == Object(<<Member("header", <<"null">>)>>)

\* a complete payload whose quantity is written as a string
StringQuantityPayload ==
    Object(<<Member("header", TextObject(required_header_fields)),
             Member("transactions",
                    <<"[">> \o Object(<<Member("isin", <<QUOTE>> \o SampleIsin \o <<QUOTE>>),
                                        Member("security_name", Quoted("text")),
                                        Member("buy_quantity", Quoted("6000"))>>) \o <<"]">>),
             Member("obligations", SampleObligations)>>)

ResponseTexts ==
    {FencedSample, PartialPayload, ProseText, ArrayText, NullHeaderPayload,
     StringQuantityPayload}

(***************************************************************************)
(* Bounds of the model                                                     *)
(***************************************************************************)
MaxPages == 10

MaxFileSizeMb == 3

MaxThresholdMb == 2

(***************************************************************************)
(* Model identifiers, spelled one character per unit                       *)
(***************************************************************************)
Gpt5Prefix == <<"g", "p", "t", "-", "5">>

Gpt5Mini == Gpt5Prefix \o <<"-", "m", "i", "n", "i">>

Gpt4o == <<"g", "p", "t", "-", "4", "o">>

FallbackModel == Gpt4o

Models == {Gpt5Prefix, Gpt5Mini, Gpt4o}

\* config["openai"]["max_tokens"]
ConfigMaxTokens == "8000"

\* a config.json without the key openai.temperature
Unset == "unset"

\* the values of openai.temperature in config.json
ConfigTemperatures == {Unset, "0", "0.7"}

\* str.startswith
StartsWith(str, prefix) ==
    Len(str) >= Len(prefix) /\ SubSeq(str, 1, Len(prefix)) = prefix

(***************************************************************************)
(* Document reducer: the page indices _reduce_pdf_size adds to the writer  *)
(***************************************************************************)
\* range(a, b) as a sequence
PyRange(a, b) == [i \in 1..(IF b > a THEN b - a ELSE 0) |-> a + i - 1]

\* faulty variant: the range of the last pages starts one page early
ReducedPages_ThreeLast(total_pages) ==
    IF total_pages <= 4 THEN PyRange(0, total_pages)
    ELSE PyRange(0, Min({2, total_pages}))
         \o PyRange(Max({0, total_pages - 3}), total_pages)

ReducedPages(total_pages) ==
    IF total_pages <= 4 THEN PyRange(0, total_pages)
    ELSE PyRange(0, Min({2, total_pages}))
         \o PyRange(Max({0, total_pages - 2}), total_pages)

(***************************************************************************)
(* The model service's answers to a completion request                     *)
(***************************************************************************)
RequestErrors == {"insufficient_quota", "token size exceeds the maximum limit"}

\* the test of the except block of _extract_with_openai for a token limit error
IsTokenLimitError(error_msg) == error_msg = "token size exceeds the maximum limit"

Raised(e) == [kind |-> "raise", error |-> e, text |-> <<>>]

\* message.content is None
NoContent == [kind |-> "none", error |-> "", text |-> <<>>]

\* message.content is the empty string
EmptyContent == [kind |-> "empty", error |-> "", text |-> <<>>]

Content(t) == [kind |-> "text", error |-> "", text |-> t]

Responses ==
    {Raised(e) : e \in RequestErrors} \cup {NoContent, EmptyContent}
    \cup {Content(t) : t \in ResponseTexts}

\* the parsed mapping of every response text
Parsed == [t \in ResponseTexts |-> _parse_json_response(t)]

\* whether a parse attempt succeeds on the response text
Parses == [t \in ResponseTexts |-> ParseAttempts(t).ok]

(***************************************************************************)
(* State of one invocation of extract_from_pdf and of its environment      *)
(***************************************************************************)
VARIABLES
    input,             \* arguments, configuration and the source file
    pc,                \* position in extract_from_pdf
    errors,            \* errors list
    warnings,          \* warnings list
    reduced_pdf_path,  \* "None" or the path of the reduced document
    pdf_path,          \* path handed to the upload
    file_size_mb,      \* size read at the start
    file_id,           \* "None" or the upload identifier
    extracted_data,    \* mapping returned by _extract_with_openai
    result,            \* the ExtractionResult returned
    temp_files,        \* temporary files that exist on disk
    temp_pages,        \* page indices written to the reduced document
    temp_size_mb,      \* size of the reduced document
    uploads,           \* paths handed to files.create, in order
    requests,          \* requests handed to chat.completions.create, in order
    responses,         \* the service's answer to each request
    steps              \* history: the steps taken and whether each succeeded

vars == <<input, pc, errors, warnings, reduced_pdf_path, pdf_path, file_size_mb,
          file_id, extracted_data, result, temp_files, temp_pages, temp_size_mb,
          uploads, requests, responses, steps>>

OriginalPath == "contract_note.pdf"

TempPath == "tmp_reduced.pdf"

FileId == "file-1"

NoResult == [success |-> FALSE, data |-> EmptyDict, errors |-> <<>>,
             warnings |-> <<>>, metadata |-> EmptyMap]

Inputs ==
    {i \in [model : Models,
            temperature : ConfigTemperatures,
            reduction_enabled : BOOLEAN,
            max_size_mb : 1..MaxThresholdMb,
            exists : BOOLEAN,
            size_mb : 0..MaxFileSizeMb,
            valid_pdf : BOOLEAN,
            total_pages : 0..MaxPages] :
        /\ ~i.exists => i.size_mb = 0 /\ ~i.valid_pdf
        /\ ~i.valid_pdf => i.total_pages = 0}

Init ==
    /\ input \in Inputs
    /\ pc = "start"
    /\ errors = <<>>
    /\ warnings = <<>>
    /\ reduced_pdf_path = "None"
    /\ pdf_path = OriginalPath
    /\ file_size_mb = 0
    /\ file_id = "None"
    /\ extracted_data = EmptyDict
    /\ result = NoResult
    /\ temp_files = {}
    /\ temp_pages = <<>>
    /\ temp_size_mb = 0
    /\ uploads = <<>>
    /\ requests = <<>>
    /\ responses = <<>>
    /\ steps = <<>>

\* history of the steps
Step(name, ok) == steps' = Append(steps, [step |-> name, ok |-> ok])

Ran(name) == \E i \in 1..Len(steps) : steps[i].step = name

Failed(name) == \E i \in 1..Len(steps) : steps[i].step = name /\ ~steps[i].ok

ExtractionResult(success, data, errs, warns, metadata) ==
    [success |-> success, data |-> data, errors |-> errs,
     warnings |-> warns, metadata |-> metadata]

\* faulty variant: the except block hands back the errors list instead of the
\* message of the exception
ExceptResult_AccumulatedErrors(e) ==
    ExtractionResult(FALSE, EmptyDict, errors, warnings,
                     [pdf_path |-> OriginalPath, extraction_timestamp |-> "now"])

\* the except block of extract_from_pdf
ExceptResult(e) ==
    ExtractionResult(FALSE, EmptyDict, <<Err("Extraction failed", -1, e)>>, warnings,
                     [pdf_path |-> OriginalPath, extraction_timestamp |-> "now"])

\* a return statement of extract_from_pdf: control passes to the finally block
Return(r) ==
    /\ result' = r
    /\ pc' = "finally"

(***************************************************************************)
(* extract_from_pdf: size check                                            *)
(***************************************************************************)
\* faulty variant: a file of exactly the threshold size is reduced as well
GetSize_GateInclusive ==
    /\ pc = "start"
    /\ Step("getsize", TRUE)
    /\ input.exists
    /\ file_size_mb' = input.size_mb
    /\ pc' = IF input.reduction_enabled /\ input.size_mb >= input.max_size_mb
             THEN "reduce_create" ELSE "upload"
    /\ UNCHANGED <<input, errors, warnings, reduced_pdf_path, pdf_path, file_id,
                   extracted_data, result, temp_files, temp_pages, temp_size_mb,
                   uploads, requests, responses>>

\* os.path.getsize succeeds; the size and the configuration decide on reduction
GetSize ==
    /\ pc = "start"
    /\ Step("getsize", TRUE)
    /\ input.exists
    /\ file_size_mb' = input.size_mb
    /\ pc' = IF input.reduction_enabled /\ input.size_mb > input.max_size_mb
             THEN "reduce_create" ELSE "upload"
    /\ UNCHANGED <<input, errors, warnings, reduced_pdf_path, pdf_path, file_id,
                   extracted_data, result, temp_files, temp_pages, temp_size_mb,
                   uploads, requests, responses>>

\* os.path.getsize raises on a missing file
GetSizeRaises ==
    /\ pc = "start"
    /\ Step("getsize", FALSE)
    /\ ~input.exists
    /\ Return(ExceptResult("FileNotFoundError"))
    /\ UNCHANGED <<input, errors, warnings, reduced_pdf_path, pdf_path, file_size_mb,
                   file_id, extracted_data, temp_files, temp_pages, temp_size_mb,
                   uploads, requests, responses>>

(***************************************************************************)
(* _reduce_pdf_size and the try block around its call                      *)
(***************************************************************************)
\* faulty variant: the return after a failed reduction is missing
ReduceFailed_NoReturn(reduce_error) ==
    /\ errors' = Append(errors, Err("PDF size reduction failed", -1, reduce_error))
    /\ result' = result
    /\ pc' = "upload"

\* the except block around the call: the error is recorded and the
\* invocation returns
ReduceFailed(reduce_error) ==
    /\ errors' = Append(errors, Err("PDF size reduction failed", -1, reduce_error))
    /\ Return(ExtractionResult(FALSE, EmptyDict, errors', warnings, EmptyMap))

\* tempfile.NamedTemporaryFile(delete=False) creates the file
ReduceCreateTemp ==
    /\ pc = "reduce_create"
    /\ Step("create_temp", TRUE)
    /\ temp_files' = temp_files \cup {TempPath}
    /\ pc' = "reduce_write"
    /\ UNCHANGED <<input, errors, warnings, reduced_pdf_path, pdf_path, file_size_mb,
                   file_id, extracted_data, result, temp_pages, temp_size_mb,
                   uploads, requests, responses>>

\* the temporary file cannot be created
ReduceCreateTempRaises ==
    /\ pc = "reduce_create"
    /\ Step("reduce", FALSE)
    /\ ReduceFailed("OSError")
    /\ UNCHANGED <<input, warnings, reduced_pdf_path, pdf_path, file_size_mb,
                   file_id, extracted_data, temp_files, temp_pages, temp_size_mb,
                   uploads, requests, responses>>

\* the pages are selected and written, the path is returned, and the caller
\* records it and appends the warning
ReduceWritePages ==
    /\ pc = "reduce_write"
    /\ Step("reduce", TRUE)
    /\ input.valid_pdf
    /\ temp_pages' = ReducedPages(input.total_pages)
    /\ \E reduced_size_mb \in 0..MaxFileSizeMb :
          /\ temp_size_mb' = reduced_size_mb
          /\ warnings' = Append(warnings,
                 [kind |-> "PDF was reduced", from |-> file_size_mb, to |-> reduced_size_mb])
    /\ reduced_pdf_path' = TempPath
    /\ pdf_path' = TempPath
    /\ pc' = "upload"
    /\ UNCHANGED <<input, errors, file_size_mb, file_id, extracted_data, result,
                   temp_files, uploads, requests, responses>>

\* PdfReader raises on a source that is no valid document
ReduceReadRaises ==
    /\ pc = "reduce_write"
    /\ Step("reduce", FALSE)
    /\ ~input.valid_pdf
    /\ ReduceFailed("PdfReadError")
    /\ UNCHANGED <<input, warnings, reduced_pdf_path, pdf_path, file_size_mb,
                   file_id, extracted_data, temp_files, temp_pages, temp_size_mb,
                   uploads, requests, responses>>

\* writing the reduced document raises
ReduceWriteRaises ==
    /\ pc = "reduce_write"
    /\ Step("reduce", FALSE)
    /\ input.valid_pdf
    /\ ReduceFailed("OSError")
    /\ UNCHANGED <<input, warnings, reduced_pdf_path, pdf_path, file_size_mb,
                   file_id, extracted_data, temp_files, temp_pages, temp_size_mb,
                   uploads, requests, responses>>

(***************************************************************************)
(* _upload_pdf and the check of its result                                 *)
(***************************************************************************)
UploadPdf ==
    /\ pc = "upload"
    /\ Step("upload", TRUE)
    /\ uploads' = Append(uploads, pdf_path)
    /\ file_id' = FileId
    /\ pc' = "request"
    /\ UNCHANGED <<input, errors, warnings, reduced_pdf_path, pdf_path, file_size_mb,
                   extracted_data, result, temp_files, temp_pages, temp_size_mb,
                   requests, responses>>

\* faulty variant: the return after a failed upload is missing
UploadFails_NoReturn ==
    /\ pc = "upload"
    /\ Step("upload", FALSE)
    /\ \E issued \in BOOLEAN :
          uploads' = IF issued THEN Append(uploads, pdf_path) ELSE uploads
    /\ file_id' = "None"
    /\ errors' = Append(errors, Msg("Failed to upload PDF to OpenAI"))
    /\ pc' = "request"
    /\ UNCHANGED <<input, warnings, reduced_pdf_path, pdf_path, file_size_mb,
                   extracted_data, result, temp_files, temp_pages, temp_size_mb,
                   requests, responses>>

\* open() or files.create raises: _upload_pdf returns None and the
\* invocation returns
UploadFails ==
    /\ pc = "upload"
    /\ Step("upload", FALSE)
    /\ \E issued \in BOOLEAN :
          uploads' = IF issued THEN Append(uploads, pdf_path) ELSE uploads
    /\ file_id' = "None"
    /\ errors' = Append(errors, Msg("Failed to upload PDF to OpenAI"))
    /\ Return(ExtractionResult(FALSE, EmptyDict, errors', warnings, EmptyMap))
    /\ UNCHANGED <<input, warnings, reduced_pdf_path, pdf_path, file_size_mb,
                   extracted_data, temp_files, temp_pages, temp_size_mb,
                   requests, responses>>

(***************************************************************************)
(* _extract_with_openai                                                    *)
(***************************************************************************)
\* self.config["openai"].get("temperature", 0.1)
Temperature == IF input.temperature = Unset THEN "0.1" ELSE input.temperature

\* faulty variant: gpt-5 requests carry the temperature as well
RequestParams_TemperatureAlways ==
    [model |-> input.model,
     file_id |-> file_id,
     params |-> IF StartsWith(input.model, Gpt5Prefix)
                THEN ("max_completion_tokens" :> ConfigMaxTokens)
                     @@ ("temperature" :> Temperature)
                ELSE ("max_tokens" :> ConfigMaxTokens) @@ ("temperature" :> Temperature)]

\* request_params without the messages: the model, the file referenced and
\* the model-specific parameters
RequestParams ==
    [model |-> input.model,
     file_id |-> file_id,
     params |-> IF StartsWith(input.model, Gpt5Prefix)
                THEN ("max_completion_tokens" :> ConfigMaxTokens)
                ELSE ("max_tokens" :> ConfigMaxTokens) @@ ("temperature" :> Temperature)]

\* fallback_params: a copy of request_params with the model replaced,
\* max_tokens and temperature set and max_completion_tokens deleted
FallbackParams ==
    LET set == ("max_tokens" :> ConfigMaxTokens) @@ ("temperature" :> Temperature)
               @@ RequestParams.params
    IN [RequestParams EXCEPT
           !.model = FallbackModel,
           !.params = [k \in DOMAIN set \ {"max_completion_tokens"} |-> set[k]]]

\* faulty variant: an empty answer goes to the fallback whatever the model family
AfterPrimary_FallbackAnyModel(model, response) ==
    CASE response.kind \in {"raise", "none"} -> [next |-> "validate", data |-> EmptyDict]
      [] response.kind = "empty" -> [next |-> "fallback", data |-> EmptyDict]
      [] response.kind = "text" -> [next |-> "validate", data |-> Parsed[response.text]]

\* faulty variant: a raised request of a gpt-5 model goes to the fallback as well
AfterPrimary_RaiseFallsBack(model, response) ==
    CASE response.kind = "none" -> [next |-> "validate", data |-> EmptyDict]
      [] response.kind \in {"raise", "empty"} ->
            IF StartsWith(model, Gpt5Prefix)
            THEN [next |-> "fallback", data |-> EmptyDict]
            ELSE [next |-> "validate", data |-> EmptyDict]
      [] response.kind = "text" -> [next |-> "validate", data |-> Parsed[response.text]]

\* faulty variant: the except block tries the fallback on a token limit error
AfterPrimary_TokenLimitFallsBack(model, response) ==
    CASE response.kind = "raise" ->
            IF IsTokenLimitError(response.error)
            THEN [next |-> "fallback", data |-> EmptyDict]
            ELSE [next |-> "validate", data |-> EmptyDict]
      [] response.kind = "none" -> [next |-> "validate", data |-> EmptyDict]
      [] response.kind = "empty" ->
            IF StartsWith(model, Gpt5Prefix)
            THEN [next |-> "fallback", data |-> EmptyDict]
            ELSE [next |-> "validate", data |-> EmptyDict]
      [] response.kind = "text" -> [next |-> "validate", data |-> Parsed[response.text]]

\* what _extract_with_openai does with the answer to the primary request:
\* it returns data (next = "validate") or goes on to the fallback request
AfterPrimary(model, response) ==
    CASE response.kind = "raise" ->
            \* except block: return {}
            [next |-> "validate", data |-> EmptyDict]
      [] response.kind = "none" ->
            \* len(None) raises TypeError: except block, return {}
            [next |-> "validate", data |-> EmptyDict]
      [] response.kind = "empty" ->
            IF StartsWith(model, Gpt5Prefix)
            THEN [next |-> "fallback", data |-> EmptyDict]
            ELSE [next |-> "validate", data |-> EmptyDict]
      [] response.kind = "text" ->
            [next |-> "validate", data |-> Parsed[response.text]]

\* what _extract_with_openai returns after the answer to the fallback request
AfterFallback(response) ==
    IF response.kind = "text" THEN Parsed[response.text] ELSE EmptyDict

\* history entries of a request: the request, and the parse of its text
RequestSteps(name, response) ==
    <<[step |-> name, ok |-> response.kind \in {"empty", "text"}]>>
    \o (IF response.kind = "text"
        THEN <<[step |-> "parse", ok |-> Parses[response.text]]>>
        ELSE <<>>)

\* the primary request and what follows it up to the return or the fallback
PrimaryRequest ==
    /\ pc = "request"
    /\ requests' = Append(requests, RequestParams)
    /\ \E response \in Responses :
          /\ responses' = Append(responses, response)
          /\ extracted_data' = AfterPrimary(input.model, response).data
          /\ pc' = AfterPrimary(input.model, response).next
          /\ steps' = steps \o RequestSteps("request", response)
    /\ UNCHANGED <<input, errors, warnings, reduced_pdf_path, pdf_path, file_size_mb,
                   file_id, result, temp_files, temp_pages, temp_size_mb, uploads>>

\* the request to the fallback model after an empty answer of a gpt-5 model
FallbackRequest ==
    /\ pc = "fallback"
    /\ requests' = Append(requests, FallbackParams)
    /\ \E response \in Responses :
          /\ responses' = Append(responses, response)
          /\ extracted_data' = AfterFallback(response)
          /\ steps' = steps \o RequestSteps("fallback", response)
    /\ pc' = "validate"
    /\ UNCHANGED <<input, errors, warnings, reduced_pdf_path, pdf_path, file_size_mb,
                   file_id, result, temp_files, temp_pages, temp_size_mb, uploads>>

(***************************************************************************)
(* extract_from_pdf: validation, result, cleanup                           *)
(***************************************************************************)
\* the class of the exception _validate_extracted_data raises
ValidationException(data) ==
    IF /\ ~InRaises(data)
       /\ ~HeaderRaises(data)
       /\ In("transactions", data)
       /\ ~GetItemRaises(data)
       /\ LET l == data.m[Key("transactions")].l
              first == Min({i \in 1..Len(l) : TransactionRaises(l[i])})
          IN l[first].t # "obj"
    THEN "AttributeError"
    ELSE "TypeError"

Validate ==
    /\ pc = "validate"
    /\ Step("validate", TRUE)
    /\ ~ValidationRaises(extracted_data)
    /\ errors' = errors \o _validate_extracted_data(extracted_data)
    /\ extracted_data' = DataAfterValidation(extracted_data)
    /\ pc' = "metadata"
    /\ UNCHANGED <<input, warnings, reduced_pdf_path, pdf_path, file_size_mb, file_id,
                   result, temp_files, temp_pages, temp_size_mb, uploads, requests,
                   responses>>

ValidateRaises ==
    /\ pc = "validate"
    /\ Step("validate", FALSE)
    /\ ValidationRaises(extracted_data) = TRUE
    /\ Return(ExceptResult(ValidationException(extracted_data)))
    /\ UNCHANGED <<input, errors, warnings, reduced_pdf_path, pdf_path, file_size_mb,
                   file_id, extracted_data, temp_files, temp_pages, temp_size_mb,
                   uploads, requests, responses>>

\* len(extracted_data.get('transactions', [])) raises: no .get on a value
\* that is no dict, no len() of a number, a boolean or None
MetadataRaises(data) ==
    IF data.t # "obj" THEN TRUE
    ELSE Get(data, "transactions", JList(<<>>)).t \in {"num", "bool", "null"}

MetadataException(data) == IF data.t # "obj" THEN "AttributeError" ELSE "TypeError"

\* len() of a list, a string or a dict
PyLen(v) ==
    CASE v.t = "list" -> Len(v.l)
      [] v.t = "str" -> Len(v.s)
      [] v.t = "obj" -> Cardinality(DOMAIN v.m)

\* faulty variant: the transactions are looked up under a misspelled key
Metadata_WrongKey ==
    LET metadata ==
          [extraction_timestamp |-> "now",
           pdf_path |-> OriginalPath,
           model_used |-> input.model,
           file_id |-> file_id,
           total_transactions |-> PyLen(Get(extracted_data, "transaction", JList(<<>>))),
           validation_errors |-> Len(errors),
           original_file_size_mb |-> file_size_mb,
           file_reduced |-> reduced_pdf_path # "None"]
    IN IF reduced_pdf_path # "None"
       THEN [extraction_timestamp |-> metadata.extraction_timestamp,
             pdf_path |-> metadata.pdf_path,
             model_used |-> metadata.model_used,
             file_id |-> metadata.file_id,
             total_transactions |-> metadata.total_transactions,
             validation_errors |-> metadata.validation_errors,
             original_file_size_mb |-> metadata.original_file_size_mb,
             file_reduced |-> metadata.file_reduced,
             reduced_file_size_mb |-> temp_size_mb]
       ELSE metadata

\* the metadata of the normal return
Metadata ==
    LET metadata ==
          [extraction_timestamp |-> "now",
           pdf_path |-> OriginalPath,
           model_used |-> input.model,
           file_id |-> file_id,
           total_transactions |-> PyLen(Get(extracted_data, "transactions", JList(<<>>))),
           validation_errors |-> Len(errors),
           original_file_size_mb |-> file_size_mb,
           file_reduced |-> reduced_pdf_path # "None"]
    IN IF reduced_pdf_path # "None"
       THEN [extraction_timestamp |-> metadata.extraction_timestamp,
             pdf_path |-> metadata.pdf_path,
             model_used |-> metadata.model_used,
             file_id |-> metadata.file_id,
             total_transactions |-> metadata.total_transactions,
             validation_errors |-> metadata.validation_errors,
             original_file_size_mb |-> metadata.original_file_size_mb,
             file_reduced |-> metadata.file_reduced,
             reduced_file_size_mb |-> temp_size_mb]
       ELSE metadata

BuildResult ==
    /\ pc = "metadata"
    /\ Step("metadata", TRUE)
    /\ ~MetadataRaises(extracted_data)
    /\ Return(ExtractionResult(Len(errors) = 0, extracted_data, errors, warnings, Metadata))
    /\ UNCHANGED <<input, errors, warnings, reduced_pdf_path, pdf_path, file_size_mb,
                   file_id, extracted_data, temp_files, temp_pages, temp_size_mb,
                   uploads, requests, responses>>

BuildResultRaises ==
    /\ pc = "metadata"
    /\ Step("metadata", FALSE)
    /\ MetadataRaises(extracted_data) = TRUE
    /\ Return(ExceptResult(MetadataException(extracted_data)))
    /\ UNCHANGED <<input, errors, warnings, reduced_pdf_path, pdf_path, file_size_mb,
                   file_id, extracted_data, temp_files, temp_pages, temp_size_mb,
                   uploads, requests, responses>>

\* os.path.exists / os.unlink
_cleanup_temp_file(file_path) == temp_files' = temp_files \ {file_path}

\* the finally block, after which the caller holds the result
Finally ==
    /\ pc = "finally"
    /\ Step("cleanup", TRUE)
    /\ IF reduced_pdf_path # "None" THEN _cleanup_temp_file(reduced_pdf_path)
       ELSE temp_files' = temp_files
    /\ pc' = "done"
    /\ UNCHANGED <<input, errors, warnings, reduced_pdf_path, pdf_path, file_size_mb,
                   file_id, extracted_data, result, temp_pages, temp_size_mb,
                   uploads, requests, responses>>

Next ==
    \/ GetSize
    \/ GetSizeRaises
    \/ ReduceCreateTemp
    \/ ReduceCreateTempRaises
    \/ ReduceWritePages
    \/ ReduceReadRaises
    \/ ReduceWriteRaises
    \/ UploadPdf
    \/ UploadFails
    \/ PrimaryRequest
    \/ FallbackRequest
    \/ Validate
    \/ ValidateRaises
    \/ BuildResult
    \/ BuildResultRaises
    \/ Finally

Spec == Init /\ [][Next]_vars

(***************************************************************************)
(* Properties                                                              *)
(***************************************************************************)
\* extract_from_pdf has returned its result (the finally block may be pending)
Returned == pc \in {"finally", "done"}

\* _extract_with_openai has returned to extract_from_pdf
GatewayReturned == Len(responses) >= 1 /\ pc \in {"validate", "metadata", "finally", "done"}

IsGpt5 == StartsWith(input.model, Gpt5Prefix)

HasError(errs, kind) == \E i \in 1..Len(errs) : errs[i].kind = kind

\* C1: in every returned ExtractionResult, on every exit path, success is
\* true exactly when errors is empty
C1_SuccessIffNoErrors ==
    Returned => (result.success <=> Len(result.errors) = 0)

C1_Witness ==
    /\ pc = "done"
    /\ result.success
    /\ Len(result.errors) = 0
    /\ Ran("metadata")

\* C2: whatever step fails (size read, reduction, upload, request, parsing,
\* validation, metadata construction), the invocation returns a result whose
\* errors sequence is non-empty: once a step has failed, control stays inside
\* extract_from_pdf until the result is returned
C2_FailureReported ==
    (\E i \in 1..Len(steps) : ~steps[i].ok) =>
        /\ pc \in {"validate", "metadata", "finally", "done"}
        /\ Returned => Len(result.errors) > 0 /\ ~result.success

C2_Witness ==
    /\ pc = "done"
    /\ Failed("metadata")
    /\ Len(result.errors) > 0

\* C3: after extract_from_pdf has returned, no temporary reduced-document
\* file created during the invocation still exists
C3_NoTempFileLeft ==
    pc = "done" => temp_files = {}

C5_RaiseEndsGateway ==
    (Len(responses) >= 1 /\ responses[1].kind = "raise") =>
        /\ pc # "fallback"
        /\ Len(requests) = 1
        /\ extracted_data = EmptyDict

C5_Witness ==
    /\ pc = "validate"
    /\ responses[1].kind = "raise"
    /\ IsGpt5

\* C6 as stated: after a raising primary request the fallback request is issued
C6_RaiseTriggersFallback ==
    (pc = "done" /\ Len(responses) >= 1 /\ responses[1].kind = "raise") =>
        Ran("fallback")

\* C6 amended: a raising primary request does not trigger the fallback-model
\* attempt; the invocation ends as failed, reporting that no data was extracted
C6_RaiseIsTerminal ==
    (pc = "done" /\ Len(responses) >= 1 /\ responses[1].kind = "raise") =>
        /\ ~Ran("fallback")
        /\ ~result.success
        /\ result.errors = <<Msg("No data extracted from PDF")>>

C6_Witness ==
    /\ pc = "done"
    /\ Len(responses) = 1
    /\ responses[1].kind = "raise"
    /\ IsTokenLimitError(responses[1].error)
    /\ IsGpt5
    /\ ~result.success

\* C7: when the primary request raises, the returned result records the
\* raised error as an entry of errors, and for a token limit error warnings
\* holds a warning that the document exceeds the pipeline's capacity
C7_RaisedErrorRecorded ==
    (pc = "done" /\ Len(responses) >= 1 /\ responses[1].kind = "raise") =>
        /\ \E i \in 1..Len(result.errors) : result.errors[i].field = responses[1].error
        /\ IsTokenLimitError(responses[1].error) =>
              \E i \in 1..Len(result.warnings) :
                  result.warnings[i].kind = "Document exceeds capacity"

\* C8: one invocation issues at most one upload and at most two completion
\* requests, and every request is issued after the upload returned an
\* identifier, which it references
C8_RequestBudget ==
    /\ Len(uploads) <= 1
    /\ Len(requests) <= 2
    /\ Len(requests) > 0 =>
          /\ Len(uploads) = 1
          /\ file_id = FileId
          /\ \A i \in 1..Len(requests) : requests[i].file_id = FileId

C8_Witness ==
    /\ Len(uploads) = 1
    /\ Len(requests) = 2

C10_ReducedPages ==
    Ran("reduce") /\ ~Failed("reduce") =>
        LET n == input.total_pages
        IN /\ n <= 4 => temp_pages = [i \in 1..n |-> i - 1]
           /\ n > 4 => temp_pages = <<0, 1, n - 2, n - 1>>
           /\ \A i, j \in 1..Len(temp_pages) : i # j => temp_pages[i] # temp_pages[j]

C10_Witness ==
    /\ input.total_pages = 5
    /\ temp_pages = <<0, 1, 3, 4>>
    /\ reduced_pdf_path = TempPath

\* _reduce_pdf_size has been called
ReducerCalled == pc \in {"reduce_create", "reduce_write"} \/ Ran("reduce")

\* the reduced document was produced and its path recorded
ReductionPerformed == Ran("reduce") /\ ~Failed("reduce")

HasMetadata(key) == key \in DOMAIN result.metadata

C12_ReducedSizeBounded ==
    (Returned /\ HasMetadata("original_file_size_mb")) =>
        IF ReductionPerformed
        THEN /\ HasMetadata("reduced_file_size_mb")
             /\ result.metadata.reduced_file_size_mb <= result.metadata.original_file_size_mb
        ELSE HasMetadata("reduced_file_size_mb") =>
                result.metadata.reduced_file_size_mb = result.metadata.original_file_size_mb

\* C13: in every result that carries total_transactions, it equals the number
\* of elements of data.transactions, and 0 when data has no transactions
C13_TotalTransactions ==
    (Returned /\ HasMetadata("total_transactions")) =>
        /\ result.data.t = "obj"
        /\ result.metadata.total_transactions =
              IF Key("transactions") \in DOMAIN result.data.m
              THEN PyLen(result.data.m[Key("transactions")])
              ELSE 0

C13_Witness ==
    /\ pc = "done"
    /\ HasMetadata("total_transactions")
    /\ result.metadata.total_transactions = 1
    /\ Len(result.data.m[Key("transactions")].l) = 1

(***************************************************************************)
(* _parse_json_response called on its own: the response text is drawn     *)
(* from a family of payloads and wrappings                                 *)
(***************************************************************************)
\* a payload with nested objects
NestedPayload ==
    Object(<<Member("header", TextObject(<<"client_id", "client_name">>)),
             Member("transactions",
                    <<"[">> \o JoinComma(<<SampleTransaction,
                                           Object(<<Member("buy_quantity", <<"6000">>)>>)>>)
                    \o <<"]">>)>>)

SmallObject == Object(<<Member("client_id", <<"1">>)>>)

\* syntactically valid payloads whose top level is an object
ObjectPayloads ==
    {SmallObject, NestedPayload, SamplePayload,
     Object(<<Member("security_name", Quoted("{"))>>),
     Object(<<Member("security_name", Quoted("}"))>>),
     Object(<<Member("security_name", Quoted(FENCE))>>)}

\* syntactically valid payloads whose top level is no object
OtherPayloads ==
    {ArrayText,
     <<"[">> \o SmallObject \o <<"]">>,
     <<"[">> \o JoinComma(<<SmallObject, SmallObject>>) \o <<"]">>,
     <<"[">> \o JoinComma(<<Quoted("{"), Quoted("{"), Quoted("}")>>) \o <<"]">>,
     <<"1">>, Quoted("text"), <<"null">>}

ValidPayloads == ObjectPayloads \cup OtherPayloads

\* the payload in a fenced block labelled json
FencedJson(payload) == <<FENCE, "json", WS>> \o payload \o <<WS, FENCE>>

\* the payload in a fenced block without label
FencedPlain(payload) == <<FENCE, WS>> \o payload \o <<WS, FENCE>>

\* the payload between prose
InProse(payload) == <<"sorry", WS>> \o payload \o <<WS, "text">>

\* the payload cut off after its first k units
Truncated(payload, k) == SubSeq(payload, 1, k)

RecoveryInput(text, shape, payload) ==
    [response_text |-> text, shape |-> shape, payload |-> payload]

RecoveryInputs ==
    {RecoveryInput(p, "bare", p) : p \in ValidPayloads}
    \cup {RecoveryInput(FencedJson(p), "fenced_json", p) : p \in ValidPayloads}
    \cup {RecoveryInput(FencedPlain(p), "fenced", p) : p \in ValidPayloads}
    \cup {RecoveryInput(InProse(p), "prose", p) : p \in ValidPayloads}
    \cup {RecoveryInput(Truncated(NestedPayload, k), "truncated", NestedPayload) :
             k \in 1..(Len(NestedPayload) - 1)}
    \cup {RecoveryInput(ProseText, "prose", <<>>)}

RecoveryInit ==
    /\ input \in RecoveryInputs
    /\ pc = "parse_try"
    /\ errors = <<>>
    /\ warnings = <<>>
    /\ reduced_pdf_path = "None"
    /\ pdf_path = OriginalPath
    /\ file_size_mb = 0
    /\ file_id = FileId
    /\ extracted_data = EmptyDict
    /\ result = NoResult
    /\ temp_files = {}
    /\ temp_pages = <<>>
    /\ temp_size_mb = 0
    /\ uploads = <<>>
    /\ requests = <<>>
    /\ responses = <<>>
    /\ steps = <<>>

\* what a call of _parse_json_response leaves alone
ParseFrame ==
    UNCHANGED <<input, errors, warnings, reduced_pdf_path, pdf_path, file_size_mb,
                file_id, result, temp_files, temp_pages, temp_size_mb, uploads,
                requests, responses>>

\* the try block parses the text and returns the value
ParseTry ==
    /\ pc = "parse_try"
    /\ FirstAttempt(input.response_text).ok
    /\ Step("parse_try", TRUE)
    /\ extracted_data' = FirstAttempt(input.response_text).v
    /\ pc' = "parse_returned"
    /\ ParseFrame

\* json.loads raises JSONDecodeError in the try block
ParseTryRaises ==
    /\ pc = "parse_try"
    /\ ~FirstAttempt(input.response_text).ok
    /\ Step("parse_try", FALSE)
    /\ pc' = "parse_retry"
    /\ UNCHANGED extracted_data
    /\ ParseFrame

\* the retry of the except block parses the text and returns the value
ParseRetry ==
    /\ pc = "parse_retry"
    /\ RetryAttempt(input.response_text).ok
    /\ Step("parse_retry", TRUE)
    /\ extracted_data' = RetryAttempt(input.response_text).v
    /\ pc' = "parse_returned"
    /\ ParseFrame

\* the retry raises as well: return {}
ParseRetryRaises ==
    /\ pc = "parse_retry"
    /\ ~RetryAttempt(input.response_text).ok
    /\ Step("parse_retry", FALSE)
    /\ extracted_data' = EmptyDict
    /\ pc' = "parse_returned"
    /\ ParseFrame

RecoveryNext ==
    \/ ParseTry
    \/ ParseTryRaises
    \/ ParseRetry
    \/ ParseRetryRaises

RecoverySpec == RecoveryInit /\ [][RecoveryNext]_vars

\* _parse_json_response agrees with the call sequence of RecoverySpec
ParseReturned == pc = "parse_returned"

\* the value json.loads returns for the unwrapped payload
PayloadValue == JsonLoads(input.payload).v

\* the values of the complete objects inside a text: the stretches from an
\* opening to a closing brace that parse
CompleteObjects(text) ==
    {JsonLoads(SubSeq(text, a, b)).v :
        <<a, b>> \in {<<a, b>> \in (1..Len(text)) \X (1..Len(text)) :
                         /\ a < b
                         /\ text[a] = "{"
                         /\ text[b] = "}"
                         /\ JsonLoads(SubSeq(text, a, b)).ok}}

\* C14: for every response text _parse_json_response returns a mapping, and
\* the empty mapping when no parse attempt succeeds (the call always reaches
\* its return; texts that parse to an array or a number are included)
C14_ReturnsMapping ==
    ParseReturned =>
        /\ extracted_data.t = "obj"
        /\ ~ParseAttempts(input.response_text).ok => extracted_data = EmptyDict

\* C15: for every syntactically valid payload wrapped in a fenced json block,
\* _parse_json_response returns the value of the unwrapped payload
C15_FencedRoundTrip ==
    (ParseReturned /\ input.shape = "fenced_json") =>
        extracted_data = PayloadValue

\* C16: for an object payload cut off inside a nested field, after at least
\* one nested object is complete, _parse_json_response returns a complete
\* object of the text instead of the empty mapping
C16_TruncationRepair ==
    (/\ ParseReturned
     /\ input.shape = "truncated"
     /\ CompleteObjects(input.response_text) # {}) =>
        extracted_data \in CompleteObjects(input.response_text)

\* _extract_with_openai returned the empty mapping to extract_from_pdf
GatewayYieldedEmpty ==
    /\ GatewayReturned
    /\ LET last == responses[Len(responses)]
       IN \/ last.kind \in {"raise", "none", "empty"}
          \/ last.kind = "text" /\ Parsed[last.text] = EmptyDict

\* C17: whenever the gateway yields the empty mapping (unparseable text, an
\* empty response without a successful fallback, or a raised request), the
\* result has success false and exactly one error, that no data was extracted
C17_EmptyMappingReported ==
    (Returned /\ GatewayYieldedEmpty) =>
        /\ ~result.success
        /\ result.errors = <<Msg("No data extracted from PDF")>>
        /\ result.data = EmptyDict

C17_Witness ==
    /\ pc = "done"
    /\ responses = <<Content(ProseText)>>
    /\ ~Parses[ProseText]
    /\ ~result.success
    /\ Len(result.errors) = 1

(***************************************************************************)
(* _validate_extracted_data called on its own: the mapping is drawn from a *)
(* family of payloads, and the call proceeds block by block                *)
(***************************************************************************)
\* marks a key that the mapping does not hold
Absent == [t |-> "absent"]

\* the entry of a mapping for a key, none when the value is Absent
Entry(name, v) == IF v = Absent THEN EmptyMap ELSE (Key(name) :> v)

TextValue == JStr(<<"text">>)

HeaderChoices == [Range(required_header_fields) -> {"absent", "empty", "text"}]

\* a header whose required fields are absent, empty or filled as c says
HeaderValue(c) ==
    JObj([k \in {Key(f) : f \in {g \in Range(required_header_fields) : c[g] # "absent"}} |->
             IF c[k[1]] = "empty" THEN JStr(<<>>) ELSE TextValue])

CompleteHeader == HeaderValue([f \in Range(required_header_fields) |-> "text"])

CompleteTransaction == JsonLoads(SampleTransaction).v

CompleteObligations == JsonLoads(SampleObligations).v

\* values of the isin entry of a transaction
IsinValues ==
    {Absent, JNull, JStr(<<>>), JNum("0"), JNum("1"),
     JStr(SampleIsin),
     JStr(SubSeq(SampleIsin, 1, 11)),
     JStr(SampleIsin \o <<"X">>),
     JStr(SampleIsin \o <<NEWLINE>>),
     JStr(<<"i">> \o Tail(SampleIsin)),
     JStr(<<"1">> \o Tail(SampleIsin))}

TransactionValue(isin, name) ==
    JObj(Entry("isin", isin) @@ Entry("security_name", name)
         @@ (Key("buy_quantity") :> JNum("6000")))

\* values of a numeric field of a transaction: absent, null, a number, a
\* string that float() parses, with blanks around it too, a string that it
\* does not parse, and a list
NumericValues ==
    {Absent, JNull, JNum("6000"), JStr(<<"12.5">>), JStr(<<WS, "6000", WS>>),
     TextValue, JList(<<>>)}

\* a transaction whose first two numeric fields hold the values b and s
NumericTransaction(b, s, t) ==
    JObj((Key("isin") :> JStr(SampleIsin)) @@ (Key("security_name") :> TextValue)
         @@ Entry("buy_quantity", b) @@ Entry("sell_quantity", s)
         @@ Entry("total_net_payable_receivable", t))

\* values of the transactions section
TransactionsValues ==
    {Absent, JList(<<>>), TextValue, JList(<<JNum("1")>>)}
    \cup {JList(<<TransactionValue(isin, TextValue)>>) : isin \in IsinValues}
    \cup {JList(<<CompleteTransaction, TransactionValue(isin, Absent)>>) : isin \in IsinValues}
    \cup {JList(<<NumericTransaction(b, s, t), NumericTransaction(t, Absent, s)>>) :
             b \in NumericValues, s \in NumericValues,
             t \in {JStr(<<"1">>), TextValue}}

\* values of the obligations section
ObligationsValues ==
    {Absent, CompleteObligations, EmptyDict, JNum("1"),
     JObj((Key("gst_details") :> JNull) @@ (Key("stamp_duty") :> JNum("1"))),
     JObj((Key("taxable_value_of_supply") :> EmptyDict) @@ (Key("stamp_duty") :> JNum("1")))}

Payload(header, transactions, obligations) ==
    JObj(Entry("header", header) @@ Entry("transactions", transactions)
         @@ Entry("obligations", obligations))

ValidatorInputs ==
    {Payload(HeaderValue(c), JList(<<CompleteTransaction>>), CompleteObligations) :
        c \in HeaderChoices}
    \cup {Payload(h, t, o) : h \in {Absent, CompleteHeader, EmptyDict, JNull,
                                     JObj(Key("client_id") :> JNum("0"))},
                             t \in TransactionsValues,
                             o \in ObligationsValues}
    \cup {JObj(Key("client_id") :> JNum("1")), JList(<<JNum("1")>>), JNum("1")}

ValidatorInit ==
    /\ input \in {[data |-> d] : d \in ValidatorInputs}
    /\ pc = "v_start"
    /\ errors = <<>>
    /\ warnings = <<>>
    /\ reduced_pdf_path = "None"
    /\ pdf_path = OriginalPath
    /\ file_size_mb = 0
    /\ file_id = FileId
    /\ extracted_data = input.data
    /\ result = NoResult
    /\ temp_files = {}
    /\ temp_pages = <<>>
    /\ temp_size_mb = 0
    /\ uploads = <<>>
    /\ requests = <<>>
    /\ responses = <<>>
    /\ steps = <<>>

\* what a call of _validate_extracted_data leaves alone
ValidatorFrame ==
    UNCHANGED <<input, warnings, reduced_pdf_path, pdf_path, file_size_mb, file_id,
                result, temp_files, temp_pages, temp_size_mb, uploads, requests,
                responses>>

\* the header block raises: the membership test on data, or the block itself
HeaderBlockRaises(data) == IF InRaises(data) THEN TRUE ELSE HeaderRaises(data)

\* `if not data`: the no-data error and the return, or on to the header block
ValidatorCheckData ==
    /\ pc = "v_start"
    /\ Step("v_data", Truthy(extracted_data))
    /\ errors' = IF Truthy(extracted_data) THEN errors
                 ELSE Append(errors, Msg("No data extracted from PDF"))
    /\ pc' = IF Truthy(extracted_data) THEN "v_header" ELSE "v_returned"
    /\ UNCHANGED extracted_data
    /\ ValidatorFrame

ValidatorHeader ==
    /\ pc = "v_header"
    /\ HeaderBlockRaises(extracted_data) = FALSE
    /\ Step("v_header", TRUE)
    /\ errors' = errors \o HeaderErrors(extracted_data)
    /\ pc' = "v_transactions"
    /\ UNCHANGED extracted_data
    /\ ValidatorFrame

ValidatorHeaderRaises ==
    /\ pc = "v_header"
    /\ HeaderBlockRaises(extracted_data) = TRUE
    /\ Step("v_header", FALSE)
    /\ pc' = "v_raised"
    /\ UNCHANGED <<errors, extracted_data>>
    /\ ValidatorFrame

\* faulty variant: validation stops at the first section that has errors
ValidatorTransactions_StopsEarly ==
    /\ pc = "v_transactions"
    /\ TransactionsRaise(extracted_data) = FALSE
    /\ Step("v_transactions", TRUE)
    /\ errors' = IF Len(errors) > 0 THEN errors
                 ELSE errors \o TransactionsErrors(extracted_data)
    /\ extracted_data' = DataAfterValidation(extracted_data)
    /\ pc' = IF Len(errors) > 0 THEN "v_returned" ELSE "v_obligations"
    /\ ValidatorFrame

\* the transactions block; the numeric fields are coerced in place
ValidatorTransactions ==
    /\ pc = "v_transactions"
    /\ TransactionsRaise(extracted_data) = FALSE
    /\ Step("v_transactions", TRUE)
    /\ errors' = errors \o TransactionsErrors(extracted_data)
    /\ extracted_data' = DataAfterValidation(extracted_data)
    /\ pc' = "v_obligations"
    /\ ValidatorFrame

ValidatorTransactionsRaises ==
    /\ pc = "v_transactions"
    /\ TransactionsRaise(extracted_data) = TRUE
    /\ Step("v_transactions", FALSE)
    /\ pc' = "v_raised"
    /\ UNCHANGED <<errors, extracted_data>>
    /\ ValidatorFrame

ValidatorObligations ==
    /\ pc = "v_obligations"
    /\ ObligationsBlockRaises(extracted_data) = FALSE
    /\ Step("v_obligations", TRUE)
    /\ errors' = errors \o ObligationsErrors(extracted_data)
    /\ pc' = "v_returned"
    /\ UNCHANGED extracted_data
    /\ ValidatorFrame

ValidatorObligationsRaises ==
    /\ pc = "v_obligations"
    /\ ObligationsBlockRaises(extracted_data) = TRUE
    /\ Step("v_obligations", FALSE)
    /\ pc' = "v_raised"
    /\ UNCHANGED <<errors, extracted_data>>
    /\ ValidatorFrame

ValidatorNext ==
    \/ ValidatorCheckData
    \/ ValidatorHeader
    \/ ValidatorHeaderRaises
    \/ ValidatorTransactions
    \/ ValidatorTransactionsRaises
    \/ ValidatorObligations
    \/ ValidatorObligationsRaises

ValidatorSpec == ValidatorInit /\ [][ValidatorNext]_vars

\* _validate_extracted_data has returned its error list
ValidatorReturned == pc = "v_returned"

\* the block-by-block call returns what _validate_extracted_data returns
ValidatorAgrees ==
    /\ ValidatorReturned =>
          /\ ~ValidationRaises(input.data)
          /\ errors = _validate_extracted_data(input.data)
          /\ extracted_data = DataAfterValidation(input.data)
    /\ pc = "v_raised" => ValidationRaises(input.data)

\* the entries of the returned error list whose message is of one of kinds
ErrorsOfKinds(kinds) ==
    LET OfKind(e) == e.kind \in kinds
    IN SelectSeq(errors, OfKind)

HeaderKinds == {"Missing header section", "Missing required header field"}

TransactionKinds ==
    {"Missing transactions section", "Transactions should be a list", "Missing ISIN",
     "Invalid ISIN format", "Missing security name", "Invalid numeric value"}

ObligationKinds ==
    {"Missing obligations section", "Missing obligations field",
     "Missing taxable value field", "Missing GST detail field"}

\* the mapping has the section
HasSection(data, name) == data.t = "obj" /\ Key(name) \in DOMAIN data.m

\* a required field that the header does not hold, or holds with an empty
\* (falsy) value
AbsentOrEmpty(header, field) ==
    \/ header.t # "obj"
    \/ Key(field) \notin DOMAIN header.m
    \/ ~Truthy(header.m[Key(field)])

\* C18: for a non-empty mapping without header section the validator
\* returns exactly one header error, the missing-section error; for a mapping
\* with header section it returns exactly one header error for every required
\* field that is absent or empty, and no other header error
C18_HeaderErrors ==
    (ValidatorReturned /\ Truthy(input.data)) =>
        IF ~HasSection(input.data, "header")
        THEN ErrorsOfKinds(HeaderKinds) = <<Msg("Missing header section")>>
        ELSE LET header == input.data.m[Key("header")]
                 missing == {f \in Range(required_header_fields) : AbsentOrEmpty(header, f)}
                 reported == ErrorsOfKinds(HeaderKinds)
             IN /\ Len(reported) = Cardinality(missing)
                /\ Len(reported) <= 6
                /\ \A i \in 1..Len(reported) :
                      reported[i].kind = "Missing required header field"
                /\ \A f \in missing :
                      Cardinality({i \in 1..Len(reported) : reported[i].field = f}) = 1

C18_Witness ==
    /\ ValidatorReturned
    /\ HasSection(input.data, "header")
    /\ Len(ErrorsOfKinds(HeaderKinds)) = 3
    /\ \E i \in 1..Len(errors) : errors[i] = Err("Missing required header field", -1, "trade_date")
    /\ input.data.m[Key("header")].t = "obj"
    /\ Key("trade_date") \notin DOMAIN input.data.m[Key("header")].m
    /\ Key("client_id") \in DOMAIN input.data.m[Key("header")].m
    /\ input.data.m[Key("header")].m[Key("client_id")] = JStr(<<>>)

\* the header section is missing or misses a required field
HeaderIncomplete(data) ==
    IF ~HasSection(data, "header") THEN TRUE
    ELSE \E f \in Range(required_header_fields) : AbsentOrEmpty(data.m[Key("header")], f)

\* a transaction record without isin or without security name
TransactionIncomplete(transaction) ==
    /\ transaction.t = "obj"
    /\ \/ ~Truthy(Get(transaction, "isin", JStr(<<>>)))
       \/ ~Truthy(Get(transaction, "security_name", JNull))

\* the transactions section is missing or holds a record that misses a field
TransactionsIncomplete(data) ==
    IF ~HasSection(data, "transactions") THEN TRUE
    ELSE LET transactions == data.m[Key("transactions")]
         IN /\ transactions.t = "list"
            /\ \E i \in 1..Len(transactions.l) : TransactionIncomplete(transactions.l[i])

\* the obligations section is missing or misses a required field
ObligationsIncomplete(data) ==
    IF ~HasSection(data, "obligations") THEN TRUE
    ELSE LET obligations == data.m[Key("obligations")]
         IN /\ obligations.t = "obj"
            /\ \E f \in Range(required_fields) : Key(f) \notin DOMAIN obligations.m

IncompleteEverywhere(data) ==
    HeaderIncomplete(data) /\ TransactionsIncomplete(data) /\ ObligationsIncomplete(data)

\* the returned error list holds an error of each of the three sections
ErrorsInEverySection ==
    /\ Len(ErrorsOfKinds(HeaderKinds)) >= 1
    /\ Len(ErrorsOfKinds(TransactionKinds)) >= 1
    /\ Len(ErrorsOfKinds(ObligationKinds)) >= 1

\* C19 as stated: for every payload that misses fields in header, transactions
\* and obligations at once, a payload without any of the three sections
\* included, the returned errors hold at least one error of each section
C19_NeverShortCircuits ==
    (ValidatorReturned /\ IncompleteEverywhere(input.data)) => ErrorsInEverySection

\* C19 amended: for every non-empty payload that misses fields in header,
\* transactions and obligations at once, the returned errors hold at least
\* one error of each section; for the empty mapping the validator stops at
\* once with the single no-data error
C19_NonEmptyNeverShortCircuits ==
    ValidatorReturned =>
        IF Truthy(input.data)
        THEN IncompleteEverywhere(input.data) => ErrorsInEverySection
        ELSE errors = <<Msg("No data extracted from PDF")>>

C19_Witness ==
    /\ ValidatorReturned
    /\ HasSection(input.data, "header")
    /\ HasSection(input.data, "transactions")
    /\ HasSection(input.data, "obligations")
    /\ IncompleteEverywhere(input.data)
    /\ ErrorsInEverySection

\* a string of 2 uppercase letters followed by 10 uppercase letters or digits
IsinPattern(isin) ==
    /\ isin.t = "str"
    /\ Len(isin.s) = 12
    /\ \A i \in 1..2 : isin.s[i] \in UpperLetters
    /\ \A i \in 3..12 : isin.s[i] \in UpperLetters \cup Digits

\* the returned error list holds the message for the transaction of the index
HasTransactionError(kind, index) ==
    \E i \in 1..Len(errors) : errors[i].kind = kind /\ errors[i].idx = index

\* C20: for each transaction, an absent or empty isin yields a Missing ISIN
\* error, an isin that is not 2 uppercase letters followed by 10 uppercase
\* alphanumerics yields an Invalid ISIN format error instead, and a matching
\* isin yields neither; so when no error is returned, the isin of every
\* transaction matches the 12-character pattern
C20_IsinRule ==
    (/\ ValidatorReturned
     /\ HasSection(input.data, "transactions")
     /\ input.data.m[Key("transactions")].t = "list") =>
        LET transactions == input.data.m[Key("transactions")].l
        IN \A i \in 1..Len(transactions) :
              transactions[i].t = "obj" =>
                 LET isin == Get(transactions[i], "isin", JStr(<<>>))
                     missing == HasTransactionError("Missing ISIN", i - 1)
                     invalid == HasTransactionError("Invalid ISIN format", i - 1)
                 IN /\ ~Truthy(isin) => missing /\ ~invalid
                    /\ (Truthy(isin) /\ ~IsinPattern(isin)) => invalid /\ ~missing
                    /\ IsinPattern(isin) => ~missing /\ ~invalid
                    /\ errors = <<>> => IsinPattern(isin)

\* the transactions of a mapping whose transactions section is a list
TransactionsOf(data) ==
    IF HasSection(data, "transactions") /\ data.m[Key("transactions")].t = "list"
    THEN data.m[Key("transactions")].l
    ELSE <<>>

\* the number of returned errors about the numeric field of the transaction
NumericErrorCount(index, field) ==
    Cardinality({i \in 1..Len(errors) :
                    errors[i] = Err("Invalid numeric value", index, field)})

\* the value is present, not null and not a number
ToBeCoerced(transaction, field) ==
    /\ transaction.t = "obj"
    /\ Key(field) \in DOMAIN transaction.m
    /\ transaction.m[Key(field)].t \notin {"null", "num", "bool"}

\* C21: when the validator returns, every listed numeric field of every
\* transaction that is present, non-null and not already numeric has either
\* been replaced by a number, with no error for it, or is left as it was and
\* has exactly one error; this holds for every field and every transaction
\* whatever failed before it, and an incomplete obligations section is still
\* reported
C21_CoercionFailSoft ==
    ValidatorReturned =>
        /\ \A i \in 1..Len(TransactionsOf(input.data)) :
              \A field \in Range(numeric_fields) :
                 ToBeCoerced(TransactionsOf(input.data)[i], field) =>
                    LET after == TransactionsOf(extracted_data)[i].m[Key(field)]
                    IN IF after.t = "num"
                       THEN NumericErrorCount(i - 1, field) = 0
                       ELSE /\ after = TransactionsOf(input.data)[i].m[Key(field)]
                            /\ NumericErrorCount(i - 1, field) = 1
        /\ (Len(TransactionsOf(input.data)) > 0 /\ ObligationsIncomplete(input.data))
              => Len(ErrorsOfKinds(ObligationKinds)) >= 1

\* the first numeric field of the first transaction fails to parse, a later
\* field of it is replaced by its number, the second transaction has a failing
\* field as well, and the obligations errors follow
C21_Witness ==
    /\ ValidatorReturned
    /\ Len(TransactionsOf(input.data)) = 2
    /\ ToBeCoerced(TransactionsOf(input.data)[1], "buy_quantity")
    /\ ToBeCoerced(TransactionsOf(input.data)[1], "sell_quantity")
    /\ ToBeCoerced(TransactionsOf(input.data)[2], "buy_quantity")
    /\ NumericErrorCount(0, "buy_quantity") = 1
    /\ TransactionsOf(input.data)[1].m[Key("sell_quantity")] = JStr(<<WS, "6000", WS>>)
    /\ TransactionsOf(extracted_data)[1].m[Key("sell_quantity")] = JNum("6000")
    /\ NumericErrorCount(1, "buy_quantity") = 1
    /\ ObligationsIncomplete(input.data)
    /\ Len(ErrorsOfKinds(ObligationKinds)) >= 1

\* the request obeys the profile of the family of its model
ObeysProfile(request) ==
    IF StartsWith(request.model, Gpt5Prefix)
    THEN /\ "max_completion_tokens" \in DOMAIN request.params
         /\ "temperature" \notin DOMAIN request.params
         /\ "max_tokens" \notin DOMAIN request.params
    ELSE /\ "max_tokens" \in DOMAIN request.params
         /\ "temperature" \in DOMAIN request.params
         /\ "max_completion_tokens" \notin DOMAIN request.params
         /\ request.params["temperature"] =
               (IF input.temperature = "unset" THEN "0.1" ELSE input.temperature)

FallbackParsed ==
    /\ IsGpt5
    /\ Len(responses) = 2
    /\ responses[1] = EmptyContent
    /\ responses[2].kind = "text"
    /\ Parses[responses[2].text]

\* C23: when a gpt-5 primary request returns empty text and the fallback
\* returns text that parses, the data of the final result is the data parsed
\* from the fallback text, success is true exactly when validating that data
\* gives no error, and the errors of the result are the validation errors of
\* that data, none of them about the primary attempt
C23_FallbackResult ==
    (pc = "done" /\ FallbackParsed) =>
        /\ result.data = Parsed[responses[2].text]
        /\ result.errors = _validate_extracted_data(Parsed[responses[2].text])
        /\ result.success = (Len(result.errors) = 0)

(***************************************************************************)
(* _prepare_extraction_prompt called on its own.  The choice depends on    *)
(* the texts through their lengths only, so a text is held as its length   *)
(* in characters                                                           *)
(***************************************************************************)
MaxSchemaLen == 8

MaxSystemLen == 8

MaxPromptTokens == 17

\* len of the fixed head of the compact prompt, two newlines included
CompactHeadLen == 52

\* len of the text _prepare_ultra_compact_prompt returns
UltraCompactLen == 84

\* faulty variant: a prompt whose estimate equals the budget is rejected
_check_prompt_length_Strict(prompt_len, max_tokens) ==
    LET estimated_tokens == prompt_len \div 4
    IN estimated_tokens < max_tokens

\* estimated_tokens = len(prompt_text) // 4; return estimated_tokens <= max_tokens
_check_prompt_length(prompt_len, max_tokens) ==
    LET estimated_tokens == prompt_len \div 4
    IN estimated_tokens <= max_tokens

\* len of the compact prompt: the head followed by schema_text
CompactLen == CompactHeadLen + input.schema_len

\* schema_text is at least the two characters of an empty object
PromptInputs ==
    [schema_len : 2..MaxSchemaLen,
     system_len : 0..MaxSystemLen,
     max_prompt_tokens : 0..MaxPromptTokens]

PromptInit ==
    /\ input \in PromptInputs
    /\ pc = "prompt_start"
    /\ errors = <<>>
    /\ warnings = <<>>
    /\ reduced_pdf_path = "None"
    /\ pdf_path = OriginalPath
    /\ file_size_mb = 0
    /\ file_id = FileId
    /\ extracted_data = EmptyDict
    /\ result = [variant |-> "none", len |-> 0]
    /\ temp_files = {}
    /\ temp_pages = <<>>
    /\ temp_size_mb = 0
    /\ uploads = <<>>
    /\ requests = <<>>
    /\ responses = <<>>
    /\ steps = <<>>

PromptFrame ==
    UNCHANGED <<input, errors, warnings, reduced_pdf_path, pdf_path, file_size_mb,
                file_id, extracted_data, temp_files, temp_pages, temp_size_mb,
                uploads, requests, responses>>

\* the check passes on prompt + self.system_prompt: return prompt
PromptCompact ==
    /\ pc = "prompt_start"
    /\ _check_prompt_length(CompactLen + input.system_len, input.max_prompt_tokens)
    /\ Step("check_prompt_length", TRUE)
    /\ result' = [variant |-> "compact", len |-> CompactLen]
    /\ pc' = "prompt_returned"
    /\ PromptFrame

\* the check fails: return self._prepare_ultra_compact_prompt()
PromptUltraCompact ==
    /\ pc = "prompt_start"
    /\ ~_check_prompt_length(CompactLen + input.system_len, input.max_prompt_tokens)
    /\ Step("check_prompt_length", FALSE)
    /\ result' = [variant |-> "ultra-compact", len |-> UltraCompactLen]
    /\ pc' = "prompt_returned"
    /\ PromptFrame

PromptNext ==
    \/ PromptCompact
    \/ PromptUltraCompact

PromptSpec == PromptInit /\ [][PromptNext]_vars

PromptReturned == pc = "prompt_returned"

\* C24 as stated: the ultra-compact variant is returned exactly when the
\* estimate of the compact variant alone, its length divided by 4 rounded
\* down, exceeds the budget
C24_UltraIffCompactExceeds ==
    PromptReturned =>
        (result.variant = "ultra-compact"
            <=> (CompactHeadLen + input.schema_len) \div 4 > input.max_prompt_tokens)

\* C24 amended: the ultra-compact variant is returned exactly when the
\* estimate of the compact variant followed by the system prompt, the length
\* of the two together divided by 4 rounded down, exceeds the budget; when
\* that estimate equals the budget the compact variant is returned
C24_UltraIffCombinedExceeds ==
    PromptReturned =>
        LET estimate == (CompactHeadLen + input.schema_len + input.system_len) \div 4
        IN /\ result.variant \in {"compact", "ultra-compact"}
           /\ result.variant = "ultra-compact" <=> estimate > input.max_prompt_tokens
           /\ estimate = input.max_prompt_tokens => result.variant = "compact"

\* the estimate of the two texts together equals the budget, with a length
\* that is no multiple of 4, and the compact variant is returned
C24_Witness ==
    /\ PromptReturned
    /\ input.system_len > 0
    /\ (CompactHeadLen + input.schema_len + input.system_len) \div 4 = input.max_prompt_tokens
    /\ (CompactHeadLen + input.schema_len + input.system_len) % 4 = 3
    /\ result = [variant |-> "compact", len |-> CompactHeadLen + input.schema_len]

\* C25: _validate_extracted_data leaves the mapping it is given unchanged,
\* every transaction record included: when it returns, the mapping is equal
\* to the mapping it was called with
C25_ValidatorPure ==
    ValidatorReturned => extracted_data = input.data

(***************************************************************************)
(* Two invocations of extract_from_pdf run in parallel.  Every local of    *)
(* extract_from_pdf is held once per invocation; the directory of          *)
(* temporary files and the upload service are shared.  What the            *)
(* environment answers to an invocation is part of its input               *)
(***************************************************************************)
Invocations == {1, 2}

TempNames == {"tmp1_reduced.pdf", "tmp2_reduced.pdf"}

SourcePaths == {"a.pdf", "b.pdf"}

\* faulty variant: the reduced document is always written under the same name
NewTempNames_Fixed(existing) == {"tmp1_reduced.pdf"}

\* tempfile.NamedTemporaryFile creates a file under a name that no existing
\* file has
NewTempNames(existing) == TempNames \ existing

ParallelInputs ==
    {in \in [model : {Gpt5Prefix, Gpt4o},
             pdf_path : SourcePaths,
             size_mb : {1, 3},
             max_size_mb : {2},
             valid_pdf : BOOLEAN,
             total_pages : {5},
             reduced_size_mb : {1, 2},
             upload_ok : BOOLEAN,
             primary : {EmptyContent, Content(FencedSample), Content(NullHeaderPayload)},
             fallback : {Content(PartialPayload)}] :
        /\ in.size_mb <= in.max_size_mb => in.valid_pdf /\ in.reduced_size_mb = 1
        /\ ~in.valid_pdf => in.reduced_size_mb = 1}

ParallelInit ==
    /\ input \in [Invocations -> ParallelInputs]
    /\ pc = [i \in Invocations |-> "start"]
    /\ errors = [i \in Invocations |-> <<>>]
    /\ warnings = [i \in Invocations |-> <<>>]
    /\ reduced_pdf_path = [i \in Invocations |-> "None"]
    /\ pdf_path = [i \in Invocations |-> input[i].pdf_path]
    /\ file_size_mb = [i \in Invocations |-> 0]
    /\ file_id = [i \in Invocations |-> "None"]
    /\ extracted_data = [i \in Invocations |-> EmptyDict]
    /\ result = [i \in Invocations |-> NoResult]
    /\ temp_files = {}
    /\ temp_pages = [n \in TempNames |-> [owner |-> 0, pages |-> <<>>]]
    /\ temp_size_mb = [n \in TempNames |-> 0]
    /\ uploads = <<>>
    /\ requests = [i \in Invocations |-> <<>>]
    /\ responses = [i \in Invocations |-> <<>>]
    /\ steps = [i \in Invocations |-> <<>>]

\* the invocation that created the file now stored under the path, 0 for a
\* source document
OwnerOf(path) == IF path \in TempNames THEN temp_pages[path].owner ELSE 0

\* open(path) and os.path.getsize(path) succeed
FileExists(path) == path \in SourcePaths \cup temp_files

InvStep(i, record) == steps' = [steps EXCEPT ![i] = Append(@, record)]

InvReturn(i, r) ==
    /\ result' = [result EXCEPT ![i] = r]
    /\ pc' = [pc EXCEPT ![i] = "finally"]

\* the except block of extract_from_pdf
InvExceptResult(path, warns, e) ==
    ExtractionResult(FALSE, EmptyDict, <<Err("Extraction failed", -1, e)>>, warns,
                     [pdf_path |-> path, extraction_timestamp |-> "now"])

\* the metadata of the normal return
InvMetadata(model, path, data, errs, size_mb, reduced, reduced_size_mb) ==
    LET metadata ==
          [extraction_timestamp |-> "now",
           pdf_path |-> path,
           model_used |-> model,
           file_id |-> FileId,
           total_transactions |-> PyLen(Get(data, "transactions", JList(<<>>))),
           validation_errors |-> Len(errs),
           original_file_size_mb |-> size_mb,
           file_reduced |-> reduced]
    IN IF reduced
       THEN [extraction_timestamp |-> metadata.extraction_timestamp,
             pdf_path |-> metadata.pdf_path,
             model_used |-> metadata.model_used,
             file_id |-> metadata.file_id,
             total_transactions |-> metadata.total_transactions,
             validation_errors |-> metadata.validation_errors,
             original_file_size_mb |-> metadata.original_file_size_mb,
             file_reduced |-> metadata.file_reduced,
             reduced_file_size_mb |-> reduced_size_mb]
       ELSE metadata

\* lines 189-215: validation, metadata and the result, or the except block
\* when one of them raises
InvValidated(path, model, warns, errs, data, size_mb, reduced_path, exists, reduced_size_mb) ==
    IF ValidationRaises(data)
    THEN InvExceptResult(path, warns, ValidationException(data))
    ELSE LET all == errs \o _validate_extracted_data(data)
             after == DataAfterValidation(data)
         IN IF MetadataRaises(after)
            THEN InvExceptResult(path, warns, MetadataException(after))
            ELSE IF reduced_path # "None" /\ ~exists
            THEN InvExceptResult(path, warns, "FileNotFoundError")
            ELSE ExtractionResult(Len(all) = 0, after, all, warns,
                                  InvMetadata(model, path, after, all, size_mb,
                                              reduced_path # "None", reduced_size_mb))

InvGetSize(i) ==
    /\ pc[i] = "start"
    /\ InvStep(i, [step |-> "getsize", ok |-> TRUE])
    /\ file_size_mb' = [file_size_mb EXCEPT ![i] = input[i].size_mb]
    /\ pc' = [pc EXCEPT ![i] = IF input[i].size_mb > input[i].max_size_mb
                               THEN "reduce" ELSE "upload"]
    /\ UNCHANGED <<input, errors, warnings, reduced_pdf_path, pdf_path, file_id,
                   extracted_data, result, temp_files, temp_pages, temp_size_mb,
                   uploads, requests, responses>>

\* _reduce_pdf_size creates the temporary file, writes the pages and returns
\* the path; the caller records it and appends the warning
InvReduce(i) ==
    /\ pc[i] = "reduce"
    /\ input[i].valid_pdf
    /\ \E temp_path \in NewTempNames(temp_files) :
          /\ temp_files' = temp_files \cup {temp_path}
          /\ temp_pages' = [temp_pages EXCEPT ![temp_path] =
                               [owner |-> i, pages |-> ReducedPages(input[i].total_pages)]]
          /\ temp_size_mb' = [temp_size_mb EXCEPT ![temp_path] = input[i].reduced_size_mb]
          /\ reduced_pdf_path' = [reduced_pdf_path EXCEPT ![i] = temp_path]
          /\ pdf_path' = [pdf_path EXCEPT ![i] = temp_path]
          /\ warnings' = [warnings EXCEPT ![i] =
                Append(@, [kind |-> "PDF was reduced", from |-> file_size_mb[i],
                           to |-> temp_size_mb'[temp_path]])]
          /\ InvStep(i, [step |-> "reduce", ok |-> TRUE, owner |-> i])
    /\ pc' = [pc EXCEPT ![i] = "upload"]
    /\ UNCHANGED <<input, errors, file_size_mb, file_id, extracted_data, result,
                   uploads, requests, responses>>

\* _reduce_pdf_size creates the temporary file, PdfReader raises, and the
\* caller returns the failure; the file stays
InvReduceRaises(i) ==
    /\ pc[i] = "reduce"
    /\ ~input[i].valid_pdf
    /\ \E temp_path \in NewTempNames(temp_files) :
          /\ temp_files' = temp_files \cup {temp_path}
          /\ temp_pages' = [temp_pages EXCEPT ![temp_path] = [owner |-> i, pages |-> <<>>]]
          /\ temp_size_mb' = [temp_size_mb EXCEPT ![temp_path] = 0]
    /\ InvStep(i, [step |-> "reduce", ok |-> FALSE, owner |-> i])
    /\ errors' = [errors EXCEPT ![i] =
                     Append(@, Err("PDF size reduction failed", -1, "PdfReadError"))]
    /\ InvReturn(i, ExtractionResult(FALSE, EmptyDict, errors'[i], warnings[i], EmptyMap))
    /\ UNCHANGED <<input, warnings, reduced_pdf_path, pdf_path, file_size_mb, file_id,
                   extracted_data, uploads, requests, responses>>

InvUploadPdf(i) ==
    /\ pc[i] = "upload"
    /\ input[i].upload_ok /\ FileExists(pdf_path[i])
    /\ InvStep(i, [step |-> "upload", ok |-> TRUE, owner |-> OwnerOf(pdf_path[i])])
    /\ uploads' = Append(uploads, [by |-> i, path |-> pdf_path[i],
                                   owner |-> OwnerOf(pdf_path[i])])
    /\ file_id' = [file_id EXCEPT ![i] = FileId]
    /\ pc' = [pc EXCEPT ![i] = "request"]
    /\ UNCHANGED <<input, errors, warnings, reduced_pdf_path, pdf_path, file_size_mb,
                   extracted_data, result, temp_files, temp_pages, temp_size_mb,
                   requests, responses>>

\* open() or files.create raises: _upload_pdf returns None
InvUploadFails(i) ==
    /\ pc[i] = "upload"
    /\ ~(input[i].upload_ok /\ FileExists(pdf_path[i]))
    /\ InvStep(i, [step |-> "upload", ok |-> FALSE, owner |-> 0])
    /\ errors' = [errors EXCEPT ![i] = Append(@, Msg("Failed to upload PDF to OpenAI"))]
    /\ InvReturn(i, ExtractionResult(FALSE, EmptyDict, errors'[i], warnings[i], EmptyMap))
    /\ UNCHANGED <<input, warnings, reduced_pdf_path, pdf_path, file_size_mb, file_id,
                   extracted_data, temp_files, temp_pages, temp_size_mb, uploads,
                   requests, responses>>

\* what _extract_with_openai returns for the answers of the model service
InvExtraction(in, after) ==
    [fallback |-> after.next = "fallback",
     data |-> IF after.next = "fallback" THEN AfterFallback(in.fallback) ELSE after.data]

InvExtracted(in) == InvExtraction(in, AfterPrimary(in.model, in.primary)).data

\* _extract_with_openai: the primary request and, after an empty answer to a
\* gpt-5 model, the fallback request
InvExtract(i) ==
    /\ pc[i] = "request"
    /\ InvStep(i, [step |-> "request", ok |-> TRUE])
    /\ \E out \in {InvExtraction(input[i], AfterPrimary(input[i].model, input[i].primary))} :
          /\ requests' = [requests EXCEPT ![i] =
                 IF out.fallback THEN <<input[i].model, FallbackModel>>
                 ELSE <<input[i].model>>]
          /\ responses' = [responses EXCEPT ![i] =
                 IF out.fallback THEN <<input[i].primary, input[i].fallback>>
                 ELSE <<input[i].primary>>]
          /\ extracted_data' = [extracted_data EXCEPT ![i] = out.data]
    /\ pc' = [pc EXCEPT ![i] = "validate"]
    /\ UNCHANGED <<input, errors, warnings, reduced_pdf_path, pdf_path, file_size_mb,
                   file_id, result, temp_files, temp_pages, temp_size_mb, uploads>>

\* validation, metadata (the size of the reduced file is read) and the return
InvValidate(i) ==
    /\ pc[i] = "validate"
    /\ InvStep(i, [step |-> "validate", ok |-> TRUE])
    /\ LET r == InvValidated(input[i].pdf_path, input[i].model, warnings[i], errors[i],
                             extracted_data[i], file_size_mb[i], reduced_pdf_path[i],
                             FileExists(reduced_pdf_path[i]),
                             IF reduced_pdf_path[i] \in TempNames
                             THEN temp_size_mb[reduced_pdf_path[i]] ELSE 0)
       IN /\ InvReturn(i, r)
          /\ errors' = [errors EXCEPT ![i] =
                IF ValidationRaises(extracted_data[i]) THEN @
                ELSE @ \o _validate_extracted_data(extracted_data[i])]
          /\ extracted_data' = [extracted_data EXCEPT ![i] =
                IF ValidationRaises(@) THEN @ ELSE DataAfterValidation(@)]
    /\ UNCHANGED <<input, warnings, reduced_pdf_path, pdf_path, file_size_mb, file_id,
                   temp_files, temp_pages, temp_size_mb, uploads, requests, responses>>

\* the finally block: _cleanup_temp_file unlinks the reduced file if it exists
InvFinally(i) ==
    /\ pc[i] = "finally"
    /\ IF reduced_pdf_path[i] # "None" /\ reduced_pdf_path[i] \in temp_files
       THEN /\ temp_files' = temp_files \ {reduced_pdf_path[i]}
            /\ InvStep(i, [step |-> "cleanup", ok |-> TRUE,
                           owner |-> OwnerOf(reduced_pdf_path[i])])
       ELSE /\ temp_files' = temp_files
            /\ InvStep(i, [step |-> "cleanup", ok |-> TRUE, owner |-> 0])
    /\ pc' = [pc EXCEPT ![i] = "done"]
    /\ UNCHANGED <<input, errors, warnings, reduced_pdf_path, pdf_path, file_size_mb,
                   file_id, extracted_data, result, temp_pages, temp_size_mb,
                   uploads, requests, responses>>

ParallelNext ==
    \/ \E i \in Invocations : InvGetSize(i)
    \/ \E i \in Invocations : InvReduce(i)
    \/ \E i \in Invocations : InvReduceRaises(i)
    \/ \E i \in Invocations : InvUploadPdf(i)
    \/ \E i \in Invocations : InvUploadFails(i)
    \/ \E i \in Invocations : InvExtract(i)
    \/ \E i \in Invocations : InvValidate(i)
    \/ \E i \in Invocations : InvFinally(i)

ParallelSpec == ParallelInit /\ [][ParallelNext]_vars

\* the result of an invocation that runs alone on its input
AloneResult(in) ==
    LET reduces == in.size_mb > in.max_size_mb
        warns == IF reduces /\ in.valid_pdf
                 THEN <<[kind |-> "PDF was reduced", from |-> in.size_mb,
                         to |-> in.reduced_size_mb]>>
                 ELSE <<>>
    IN IF reduces /\ ~in.valid_pdf
       THEN ExtractionResult(FALSE, EmptyDict,
                             <<Err("PDF size reduction failed", -1, "PdfReadError")>>,
                             <<>>, EmptyMap)
       ELSE IF ~in.upload_ok
       THEN ExtractionResult(FALSE, EmptyDict, <<Msg("Failed to upload PDF to OpenAI")>>,
                             warns, EmptyMap)
       ELSE InvValidated(in.pdf_path, in.model, warns, <<>>, InvExtracted(in), in.size_mb,
                         IF reduces THEN "tmp_reduced.pdf" ELSE "None", TRUE,
                         in.reduced_size_mb)

\* C26: under every interleaving of two invocations, the temporary file an
\* invocation works on is one it created itself and differs from the other
\* invocation's, every upload is of the invocation's source document or of a
\* temporary file it created, every file an invocation deletes is one it
\* created, and a finished invocation holds the result it would have
\* returned running alone on the same input and the same answers
C26_ParallelIndependent ==
    /\ \A i \in Invocations :
          (pc[i] # "done" /\ reduced_pdf_path[i] # "None") =>
             /\ reduced_pdf_path[i] \in temp_files
             /\ OwnerOf(reduced_pdf_path[i]) = i
             /\ \A j \in Invocations \ {i} : reduced_pdf_path[j] # reduced_pdf_path[i]
                                              \/ pc[j] = "done"
    /\ \A k \in 1..Len(uploads) : uploads[k].owner \in {0, uploads[k].by}
    /\ \A i \in Invocations : \A k \in 1..Len(steps[i]) :
          steps[i][k].step = "cleanup" => steps[i][k].owner \in {0, i}
    /\ \A i \in Invocations : pc[i] = "done" => result[i] = AloneResult(input[i])

\* both invocations reduced their document while the other one held its
\* temporary file, uploaded the reduced file and finished with success
C26_Witness ==
    /\ \A i \in Invocations : pc[i] = "done" /\ result[i].success
    /\ reduced_pdf_path[1] # "None"
    /\ reduced_pdf_path[2] # "None"
    /\ reduced_pdf_path[1] # reduced_pdf_path[2]
    /\ Len(uploads) = 2
    /\ uploads[1] = [by |-> 2, path |-> reduced_pdf_path[2], owner |-> 2]
    /\ uploads[2] = [by |-> 1, path |-> reduced_pdf_path[1], owner |-> 1]
    /\ steps[1][Len(steps[1])] = [step |-> "cleanup", ok |-> TRUE, owner |-> 1]
    /\ input[1].pdf_path = input[2].pdf_path

\* C27: _validate_extracted_data never raises: for every parsed mapping, also
\* one whose header, obligations or a nested sub-section is no mapping, whose
\* transactions hold an element that is no mapping, or whose isin is no
\* string, the call ends by returning its error list
C27_ValidationNeverAborts ==
    /\ pc # "v_raised"
    /\ ValidatorReturned => ~ValidationRaises(input.data)

(***************************************************************************)
(* The app's pipeline: process_pdf and reduce_pdf_size of app.py.  The     *)
(* uploaded document is held in memory; temp_files is the set of temporary *)
(* files that exist                                                        *)
(***************************************************************************)
\* the temporary copy of the upload made by reduce_pdf_size
TempInputPath == "tmp_input.pdf"

\* the reduced document made by reduce_pdf_size
TempOutputPath == "tmp_output_reduced.pdf"

\* the temporary copy of the upload made by process_pdf
TempCopyPath == "tmp_copy.pdf"

\* the answers of the model service to the request of extract_with_openai:
\* the request raises, or the response carries a text
AppResponses ==
    {Raised("insufficient_quota")}
    \cup {Content(t) : t \in {FencedSample, ArrayText, ProseText}}

\* cleaned_text of extract_with_openai: the inside of the first fenced json
\* block, else of the first fenced block, stripped; the text itself when the
\* pattern finds no closing fence
AppCleanedText(response_text) ==
    LET j == FindFenceJson(response_text, 1)
        jc == IF j = 0 THEN 0 ELSE FindUnit(response_text, FENCE, j + 2)
        f == FindUnit(response_text, FENCE, 1)
        fc == IF f = 0 THEN 0 ELSE FindUnit(response_text, FENCE, f + 1)
    IN IF j # 0
       THEN IF jc # 0 THEN Strip(SubSeq(response_text, j + 2, jc - 1)) ELSE response_text
       ELSE IF f # 0 /\ fc # 0 THEN Strip(SubSeq(response_text, f + 1, fc - 1))
       ELSE response_text

\* extract_with_openai returns (data, None), or (None, error_msg) when the
\* request or json.loads raises
extract_with_openai(response) ==
    IF response.kind = "raise" THEN [data |-> JNull, error |-> response.error]
    ELSE LET parsed == JsonLoads(AppCleanedText(response.text))
         IN IF parsed.ok THEN [data |-> parsed.v, error |-> "None"]
            ELSE [data |-> JNull, error |-> "JSONDecodeError"]

\* the None that process_pdf returns in place of a result
AppNone == [none |-> TRUE]

AppInputs ==
    [api_key : BOOLEAN,
     reduction_enabled : BOOLEAN,
     max_size_mb : 1..MaxThresholdMb,
     size_mb : 0..MaxFileSizeMb,
     valid_pdf : BOOLEAN]

AppInit ==
    /\ input \in AppInputs
    /\ pc = "app_start"
    /\ errors = <<>>
    /\ warnings = <<>>
    /\ reduced_pdf_path = "None"
    /\ pdf_path = "None"
    /\ file_size_mb = 0
    /\ file_id = "None"
    /\ extracted_data = JNull
    /\ result = NoResult
    /\ temp_files = {}
    /\ temp_pages = <<>>
    /\ temp_size_mb = 0
    /\ uploads = <<>>
    /\ requests = <<>>
    /\ responses = <<>>
    /\ steps = <<>>

\* a return statement of process_pdf
AppReturn(r) ==
    /\ result' = r
    /\ pc' = "app_done"

\* no API key in the environment: return before any file is created
AppNoApiKey ==
    /\ pc = "app_start"
    /\ ~input.api_key
    /\ Step("api_key", FALSE)
    /\ AppReturn(AppNone)
    /\ UNCHANGED <<input, errors, warnings, reduced_pdf_path, pdf_path, file_size_mb,
                   file_id, extracted_data, temp_files, temp_pages, temp_size_mb,
                   uploads, requests, responses>>

\* the size of the upload and the configuration decide on reduction
AppCheckSize ==
    /\ pc = "app_start"
    /\ input.api_key
    /\ Step("api_key", TRUE)
    /\ file_size_mb' = input.size_mb
    /\ temp_size_mb' = input.size_mb
    /\ pc' = IF input.reduction_enabled /\ input.size_mb > input.max_size_mb
             THEN "app_reduce_create" ELSE "app_copy"
    /\ UNCHANGED <<input, errors, warnings, reduced_pdf_path, pdf_path, file_id,
                   extracted_data, result, temp_files, temp_pages, uploads, requests,
                   responses>>

\* reduce_pdf_size writes the upload to a temporary file and creates the
\* temporary file of the reduced document
AppReduceCreateTemp ==
    /\ pc = "app_reduce_create"
    /\ Step("create_temp", TRUE)
    /\ temp_files' = temp_files \cup {TempInputPath, TempOutputPath}
    /\ pc' = "app_reduce_write"
    /\ UNCHANGED <<input, errors, warnings, reduced_pdf_path, pdf_path, file_size_mb,
                   file_id, extracted_data, result, temp_pages, temp_size_mb, uploads,
                   requests, responses>>

\* the pages are written, the copy of the upload is unlinked, the path and
\* the sizes are returned and the caller appends the warning
AppReduceWritePages ==
    /\ pc = "app_reduce_write"
    /\ input.valid_pdf
    /\ Step("reduce", TRUE)
    /\ temp_pages' = ReducedPages(5)
    /\ \E reduced_size \in 0..MaxFileSizeMb :
          /\ temp_size_mb' = reduced_size
          /\ warnings' = Append(warnings,
                 [kind |-> "PDF was reduced", from |-> file_size_mb, to |-> reduced_size])
    /\ temp_files' = temp_files \ {TempInputPath}
    /\ pdf_path' = TempOutputPath
    /\ reduced_pdf_path' = TempOutputPath
    /\ pc' = "app_upload"
    /\ UNCHANGED <<input, errors, file_size_mb, file_id, extracted_data, result,
                   uploads, requests, responses>>

\* PdfReader or the write raises: reduce_pdf_size re-raises, process_pdf
\* records the error and returns
AppReduceRaises ==
    /\ pc = "app_reduce_write"
    /\ Step("reduce", FALSE)
    /\ \E reduce_error \in {"PdfReadError", "OSError"} :
          /\ reduce_error = "PdfReadError" <=> ~input.valid_pdf
          /\ errors' = Append(errors, Err("PDF size reduction failed", -1, reduce_error))
    /\ AppReturn(AppNone)
    /\ UNCHANGED <<input, warnings, reduced_pdf_path, pdf_path, file_size_mb, file_id,
                   extracted_data, temp_files, temp_pages, temp_size_mb, uploads,
                   requests, responses>>

\* no reduction: the upload is saved to a temporary file
AppCopyUpload ==
    /\ pc = "app_copy"
    /\ Step("copy", TRUE)
    /\ temp_files' = temp_files \cup {TempCopyPath}
    /\ pdf_path' = TempCopyPath
    /\ pc' = "app_upload"
    /\ UNCHANGED <<input, errors, warnings, reduced_pdf_path, file_size_mb, file_id,
                   extracted_data, result, temp_pages, temp_size_mb, uploads, requests,
                   responses>>

AppUploadPdf ==
    /\ pc = "app_upload"
    /\ Step("upload", TRUE)
    /\ uploads' = Append(uploads, pdf_path)
    /\ file_id' = FileId
    /\ pc' = "app_extract"
    /\ UNCHANGED <<input, errors, warnings, reduced_pdf_path, pdf_path, file_size_mb,
                   extracted_data, result, temp_files, temp_pages, temp_size_mb,
                   requests, responses>>

\* upload_pdf_to_openai returns None: the error is recorded and process_pdf
\* returns
AppUploadFails ==
    /\ pc = "app_upload"
    /\ Step("upload", FALSE)
    /\ errors' = Append(errors, Msg("Failed to upload PDF to OpenAI"))
    /\ AppReturn(AppNone)
    /\ UNCHANGED <<input, warnings, reduced_pdf_path, pdf_path, file_size_mb, file_id,
                   extracted_data, temp_files, temp_pages, temp_size_mb, uploads,
                   requests, responses>>

\* extract_with_openai returns an error: it is recorded and process_pdf returns
AppExtractFails ==
    /\ pc = "app_extract"
    /\ Step("extract", FALSE)
    /\ \E response \in AppResponses : \E e \in {extract_with_openai(response)} :
          /\ e.error # "None"
          /\ errors' = Append(errors, Err("Extraction failed", -1, e.error))
    /\ AppReturn(AppNone)
    /\ UNCHANGED <<input, warnings, reduced_pdf_path, pdf_path, file_size_mb, file_id,
                   extracted_data, temp_files, temp_pages, temp_size_mb, uploads,
                   requests, responses>>

\* the result is built, the file at pdf_path is unlinked and the result returned
AppBuildResult ==
    /\ pc = "app_extract"
    /\ Step("extract", TRUE)
    /\ \E response \in AppResponses : \E e \in {extract_with_openai(response)} :
          /\ e.error = "None"
          /\ ~MetadataRaises(e.data)
          /\ extracted_data' = e.data
          /\ AppReturn(ExtractionResult(Len(errors) = 0, e.data, errors, warnings,
                [extraction_timestamp |-> "now",
                 model_used |-> "model",
                 file_id |-> file_id,
                 total_transactions |-> PyLen(Get(e.data, "transactions", JList(<<>>))),
                 original_file_size_mb |-> file_size_mb,
                 file_reduced |-> temp_size_mb < file_size_mb,
                 reduced_file_size_mb |-> temp_size_mb]))
    /\ temp_files' = temp_files \ {pdf_path}
    /\ UNCHANGED <<input, errors, warnings, reduced_pdf_path, pdf_path, file_size_mb,
                   file_id, temp_pages, temp_size_mb, uploads, requests, responses>>

\* extracted_data.get raises on data that is no mapping: the outer except
\* block records the error and returns
AppBuildResultRaises ==
    /\ pc = "app_extract"
    /\ Step("metadata", FALSE)
    /\ \E response \in AppResponses : \E e \in {extract_with_openai(response)} :
          /\ e.error = "None"
          /\ MetadataRaises(e.data)
          /\ extracted_data' = e.data
          /\ errors' = Append(errors, Err("Processing failed", -1, MetadataException(e.data)))
    /\ AppReturn(AppNone)
    /\ UNCHANGED <<input, warnings, reduced_pdf_path, pdf_path, file_size_mb, file_id,
                   temp_files, temp_pages, temp_size_mb, uploads, requests, responses>>

AppNext ==
    \/ AppNoApiKey
    \/ AppCheckSize
    \/ AppReduceCreateTemp
    \/ AppReduceWritePages
    \/ AppReduceRaises
    \/ AppCopyUpload
    \/ AppUploadPdf
    \/ AppUploadFails
    \/ AppExtractFails
    \/ AppBuildResult
    \/ AppBuildResultRaises

AppSpec == AppInit /\ [][AppNext]_vars

\* C28: when process_pdf has returned, on whichever path, no temporary file
\* that it or reduce_pdf_size created is left
C28_AppNoTempFileLeft ==
    pc = "app_done" => temp_files = {}

\* C29: in a result with metadata, model_used names the model of the request
\* that produced the returned data: the fallback model when the data came
\* from the fallback request, the selected model otherwise
C29_ModelUsed ==
    (pc = "done" /\ HasMetadata("model_used") /\ Len(requests) >= 1) =>
        result.metadata.model_used =
            (IF Len(requests) = 2 /\ responses[2].kind = "text"
             THEN FallbackModel ELSE input.model)

(***************************************************************************)
(* _fix_truncated_json called on its own, and once more on its own output. *)
(* The strings are all sequences of braces and one other character up to a *)
(* length                                                                  *)
(***************************************************************************)
MaxJsonLen == 5

\* the strings of length n over the braces and one other character
JsonStrings(n) == [1..n -> {"{", "}", "x"}]

FixInputs == UNION {JsonStrings(n) : n \in 0..MaxJsonLen}

FixInit ==
    /\ input \in {[json_str |-> s] : s \in FixInputs}
    /\ pc = "fix_start"
    /\ errors = <<>>
    /\ warnings = <<>>
    /\ reduced_pdf_path = "None"
    /\ pdf_path = OriginalPath
    /\ file_size_mb = 0
    /\ file_id = FileId
    /\ extracted_data = <<>>
    /\ result = <<>>
    /\ temp_files = {}
    /\ temp_pages = <<>>
    /\ temp_size_mb = 0
    /\ uploads = <<>>
    /\ requests = <<>>
    /\ responses = <<>>
    /\ steps = <<>>

FixFrame ==
    UNCHANGED <<input, errors, warnings, reduced_pdf_path, pdf_path, file_size_mb,
                file_id, temp_files, temp_pages, temp_size_mb, uploads, requests,
                responses>>

\* the call on the input string
FixCall ==
    /\ pc = "fix_start"
    /\ Step("fix", TRUE)
    /\ extracted_data' = _fix_truncated_json(input.json_str)
    /\ pc' = "fix_returned"
    /\ UNCHANGED result
    /\ FixFrame

\* the call on the string the first call returned
FixCallAgain ==
    /\ pc = "fix_returned"
    /\ Step("fix", TRUE)
    /\ result' = _fix_truncated_json(extracted_data)
    /\ pc' = "fix_again"
    /\ UNCHANGED extracted_data
    /\ FixFrame

FixNext ==
    \/ FixCall
    \/ FixCallAgain

FixSpec == FixInit /\ [][FixNext]_vars

RECURSIVE RunningDepth(_, _)
\* the brace depth after the first i characters of the string
RunningDepth(s, i) ==
    IF i = 0 THEN 0
    ELSE RunningDepth(s, i - 1)
         + (IF s[i] = "{" THEN 1 ELSE IF s[i] = "}" THEN -1 ELSE 0)

\* the positions, counted from 1, at which the depth returns to zero on a '}'
ZeroPositions(s) == {i \in 1..Len(s) : s[i] = "}" /\ RunningDepth(s, i) = 0}

\* C30: the string _fix_truncated_json returns is a prefix of its input; when
\* the last position at which the brace depth returns to zero on a '}' lies
\* strictly inside the string, the result ends exactly at that position,
\* otherwise it is the input; and the call on its own output returns that
\* output
C30_FixIsPrefix ==
    /\ pc \in {"fix_returned", "fix_again"} =>
          LET s == input.json_str
              zero == ZeroPositions(s)
          IN /\ Len(extracted_data) <= Len(s)
             /\ extracted_data = SubSeq(s, 1, Len(extracted_data))
             /\ IF zero # {} /\ 1 < Max(zero) /\ Max(zero) < Len(s)
                THEN Len(extracted_data) = Max(zero)
                ELSE extracted_data = s
    /\ pc = "fix_again" => result = extracted_data

\* a string cut after its last complete object, with an opening brace and
\* more after it, and the second call returning the same prefix
C30_Witness ==
    /\ pc = "fix_again"
    /\ input.json_str = <<"{", "}", "{", "x", "x">>
    /\ extracted_data = <<"{", "}">>
    /\ result = extracted_data

====
